---------------------------- MODULE Spec2Model ----------------------------
(***************************************************************************)
(* retrowin32: the kernel32 mapping table (Mappings::add/alloc/grow), the  *)
(* Virtual* and Heap* exports built on it, the PE loader's use of the      *)
(* table (load_exe) and CreateDIBSection's pixel storage.                  *)
(*                                                                         *)
(* Addresses and sizes are the code's u32 byte quantities.  The model      *)
(* checker's integers are 32-bit signed, so a u32 is modelled U32 = 2^30   *)
(* wide: every sum of two words is computed exactly and then reduced, and  *)
(* every program constant (page size, 1 MiB, 10 MiB, 20 MiB, 32 KiB) keeps *)
(* its value.  Rust's integer overflow depends on the build: with overflow *)
(* checks (debug) the operation panics, without (release) it wraps.  The   *)
(* variable overflow_checks is the build, chosen in Init.                  *)
(***************************************************************************)
EXTENDS Integers, Sequences, FiniteSets, TLC

\* ---------------------------------------------------------------- words
U32 == 2^30

PAGE == 4096

WrapAdd(a, b) == (a + b) % U32
AddOvf(a, b) == a + b >= U32
WrapSub(a, b) == (a - b + U32) % U32
SubOvf(a, b) == a < b
Max(a, b) == IF a > b THEN a ELSE b
Min(a, b) == IF a < b THEN a ELSE b

\* a size left as it is, not rounded
round_up_to_page_granularity_unrounded(size) == size

\* size + (0x1000 - 1) & !(0x1000 - 1), the sum wrapping
round_up_to_page_granularity(size) ==
    LET s == WrapAdd(size, PAGE - 1) IN s - (s % PAGE)

\* ---------------------------------------------------------------- state
VARIABLES
    mappings,        \* Mappings.0: the sequence of [addr, size]
    memLen,          \* mem.len()
    overflow_checks, \* the build: TRUE panics on overflow, FALSE wraps
    status,          \* "run", "panic" (the call aborted) or "hang" (it never returns)
    last,            \* the call that produced this state and what it returned
    calls,           \* how many calls were made
    freed,           \* the non-null addresses of mappings that were handed to VirtualFree
    heaps,           \* kernel32.heaps: the addresses of the heaps' mappings
    regs,            \* the x86 registers load_exe sets: esp, ebp
    image,           \* what load_exe recorded of the PE: base, sections, stack
    mem,             \* the non-zero bytes of guest memory: address -> byte
    blocks,          \* the blocks the heaps have granted and not freed: [heap, addr, size]
    objects,         \* gdi32.objects: the bitmaps and pens registered, by handle
    dcs,             \* gdi32.dcs: the device contexts, by handle
    windows          \* user32.windows: the windows and their back buffers, by handle

mvars == <<mappings, memLen, overflow_checks, status, last, calls, freed, heaps, regs, image>>
hvars == <<mem, blocks, objects>>
gvars == <<dcs, windows>>
vars == <<mappings, memLen, overflow_checks, status, last, calls, freed, heaps, regs, image,
          mem, blocks, objects, dcs, windows>>

Mapping(addr, size) == [addr |-> addr, size |-> size]

\* Mappings::new
new == <<Mapping(0, PAGE)>>

End(m) == m.addr + m.size

InsertAt(s, pos, e) == SubSeq(s, 1, pos) \o <<e>> \o SubSeq(s, pos + 1, Len(s))

\* iter().position(pred): the 0-based index of the first element with addr > a,
\* Len when there is none
PositionAbove(ms, a) ==
    IF \E i \in 1..Len(ms) : ms[i].addr > a
    THEN (CHOOSE i \in 1..Len(ms) :
             /\ ms[i].addr > a
             /\ \A j \in 1..(i - 1) : ~(ms[j].addr > a)) - 1
    ELSE Len(ms)

\* the outcome of a call: how it ended, the table and mem.len() it left, its value
Outcome(st, tbl, len, ret) == [st |-> st, tbl |-> tbl, len |-> len, ret |-> ret]

\* Mappings::add; ret is the index of the inserted mapping
addNoRound(ms, mapping, truncate_previous, oc, len) ==
    LET pos == PositionAbove(ms, mapping.addr)
        hasPrev == pos > 0
        prev == ms[pos]
        conflict == hasPrev /\ WrapAdd(prev.addr, prev.size) >= mapping.addr
        ms1 == IF conflict /\ truncate_previous
               THEN [ms EXCEPT ![pos].size = mapping.addr - prev.addr]
               ELSE ms
        hasNext == pos < Len(ms)
        next == ms[pos + 1]
    IN  IF oc /\ hasPrev /\ AddOvf(prev.addr, prev.size)
        THEN Outcome("panic", ms, len, 0)
        ELSE IF conflict /\ ~truncate_previous
        THEN Outcome("panic", ms, len, 0)
        ELSE IF oc /\ hasNext /\ AddOvf(mapping.addr, mapping.size)
        THEN Outcome("panic", ms1, len, 0)
        ELSE IF hasNext /\ ~(WrapAdd(mapping.addr, mapping.size) <= next.addr)
        THEN Outcome("panic", ms1, len, 0)
        ELSE Outcome("ok", InsertAt(ms1, pos, mapping), len, pos + 1)

add(ms, m, truncate_previous, oc, len) ==
    IF oc /\ AddOvf(m.size, PAGE - 1)
    THEN Outcome("panic", ms, len, 0)
    ELSE addNoRound(ms, Mapping(m.addr, round_up_to_page_granularity(m.size)),
                    truncate_previous, oc, len)

\* the cap of Mappings::alloc: 20 << 20
MaxMappingSize == 20 * 2^20

\* the closure of alloc's position(): walks the table from index i with prev_end,
\* stops at the first mapping preceded by a gap larger than size
RECURSIVE allocScan(_, _, _, _, _)
allocScan(ms, i, prev_end, size, oc) ==
    IF i > Len(ms)
    THEN [st |-> "none", pos |-> Len(ms), prev_end |-> prev_end]
    ELSE LET mapping == ms[i] IN
         IF oc /\ SubOvf(mapping.addr, prev_end)
         THEN [st |-> "panic", pos |-> 0, prev_end |-> prev_end]
         ELSE IF WrapSub(mapping.addr, prev_end) > size
         THEN [st |-> "found", pos |-> i - 1, prev_end |-> prev_end]
         ELSE IF oc /\ AddOvf(mapping.addr, mapping.size)
         THEN [st |-> "panic", pos |-> 0, prev_end |-> prev_end]
         ELSE allocScan(ms, i + 1, WrapAdd(mapping.addr, mapping.size), size, oc)

\* the unwrap_or_else of alloc: no gap was found, the mapping goes at prev_end and
\* mem is resized when what is left of it after prev_end is smaller than size
allocAtEnd(ms, prev_end, size, oc, len) ==
    LET space == IF len > prev_end THEN len - prev_end ELSE 0 IN
    IF space < size
    THEN IF oc /\ AddOvf(prev_end, size)
         THEN Outcome("panic", ms, len, 0)
         ELSE Outcome("ok", InsertAt(ms, Len(ms), Mapping(prev_end, size)),
                      WrapAdd(prev_end, size), Len(ms) + 1)
    ELSE Outcome("ok", InsertAt(ms, Len(ms), Mapping(prev_end, size)), len, Len(ms) + 1)

\* Mappings::alloc on a size already rounded; ret is the index of the new mapping
allocRounded(ms, size, oc, len) ==
    IF size > MaxMappingSize
    THEN Outcome("panic", ms, len, 0)
    ELSE LET sc == allocScan(ms, 1, 0, size, oc) IN
         IF sc.st = "panic" THEN Outcome("panic", ms, len, 0)
         ELSE IF sc.st = "found"
         THEN Outcome("ok", InsertAt(ms, sc.pos, Mapping(sc.prev_end, size)), len, sc.pos + 1)
         ELSE allocAtEnd(ms, sc.prev_end, size, oc, len)

\* Mappings::alloc
alloc(ms, size, oc, len) ==
    IF oc /\ AddOvf(size, PAGE - 1)
    THEN Outcome("panic", ms, len, 0)
    ELSE allocRounded(ms, round_up_to_page_granularity(size), oc, len)

\* the while loop of grow: doubles new_size until new_size - size >= min_growth.
\* A new_size that doubling leaves unchanged (0) never ends the loop.
RECURSIVE growLoop(_, _, _, _)
growLoop(size, new_size, min_growth, oc) ==
    IF oc /\ SubOvf(new_size, size) THEN [st |-> "panic", new_size |-> new_size]
    ELSE IF ~(WrapSub(new_size, size) < min_growth) THEN [st |-> "ok", new_size |-> new_size]
    ELSE IF oc /\ new_size * 2 >= U32 THEN [st |-> "panic", new_size |-> new_size]
    ELSE IF (new_size * 2) % U32 = new_size THEN [st |-> "hang", new_size |-> new_size]
    ELSE growLoop(size, (new_size * 2) % U32, min_growth, oc)

\* 0-based index of the first mapping at addr, -1 for None
PositionAt(ms, addr) ==
    IF \E i \in 1..Len(ms) : ms[i].addr = addr
    THEN (CHOOSE i \in 1..Len(ms) :
             /\ ms[i].addr = addr
             /\ \A j \in 1..(i - 1) : ms[j].addr # addr) - 1
    ELSE -1

\* Mappings::grow; ret is the growth
grow(ms, addr, min_growth, oc, len) ==
    LET pos == PositionAt(ms, addr) IN
    IF pos < 0 THEN Outcome("panic", ms, len, 0)
    ELSE LET mapping == ms[pos + 1]
             lp == growLoop(mapping.size, mapping.size, min_growth, oc)
             new_size == lp.new_size
             hasNext == pos + 1 < Len(ms)
             next == ms[pos + 2]
         IN  IF lp.st # "ok" THEN Outcome(lp.st, ms, len, 0)
             ELSE IF oc /\ hasNext /\ AddOvf(mapping.addr, new_size)
             THEN Outcome("panic", ms, len, 0)
             ELSE IF hasNext /\ WrapAdd(mapping.addr, new_size) > next.addr
             THEN Outcome("panic", ms, len, 0)
             ELSE IF oc /\ SubOvf(new_size, mapping.size)
             THEN Outcome("panic", ms, len, 0)
             ELSE Outcome("ok", [ms EXCEPT ![pos + 1].size = new_size], len,
                          WrapSub(new_size, mapping.size))

\* ------------------------------------------------------- bounds and inputs
\* behaviours are explored up to this many calls
MaxCalls == 3

\* behaviours are explored up to this many calls after load_exe
MaxCallsLoaded == 1

\* addresses handed to add: 0, an address inside the null page, the end of the null
\* page, and one that leaves a gap of two pages after it
AddrInputs == {0, 2048, PAGE, 3 * PAGE}

\* sizes handed to add: 0, not a page multiple, and one reaching the end of the
\* address space from the first page
AddSizes == {0, 1, U32 - PAGE}

\* sizes handed to alloc and VirtualAlloc: up to and over the 20 MiB cap, and one
\* that rounding up overflows
AllocSizes == {0, 1, 2 * PAGE, MaxMappingSize + 1, U32 - 1}

GrowthInputs == {0, 1, PAGE + 1, U32 - 1}

\* a call: its arguments, the value it returned and, when it returned a mapping or
\* made one, that mapping's index in the table (0 when none)
Call(op, addr, size, flag, ret, idx) ==
    [op |-> op, addr |-> addr, size |-> size, flag |-> flag, ret |-> ret, idx |-> idx]

\* the state a call leaves: the outcome's table and mem.len(); a panic or a hang
\* ends the program
Leaves(o, call) ==
    /\ mappings' = o.tbl
    /\ memLen' = o.len
    /\ status' = IF o.st = "ok" THEN "run" ELSE o.st
    /\ last' = call
    /\ calls' = calls + 1
    /\ UNCHANGED <<overflow_checks, dcs, windows>>

Running == status = "run" /\ calls < (IF image.loaded THEN MaxCallsLoaded ELSE MaxCalls)

\* ---------------------------------------------------------------- actions
\* Mappings::add(mapping, truncate_previous)
Add ==
    \E addr \in AddrInputs, size \in AddSizes, truncate_previous \in BOOLEAN :
        LET o == add(mappings, Mapping(addr, size), truncate_previous,
                     overflow_checks, memLen)
        IN  /\ Running
            /\ Leaves(o, Call("add", addr, size, truncate_previous, o.ret, o.ret))
            /\ UNCHANGED <<freed, heaps, regs, image, mem, blocks, objects>>

\* Mappings::alloc(size, desc, mem)
Alloc ==
    \E size \in AllocSizes :
        LET o == alloc(mappings, size, overflow_checks, memLen)
        IN  /\ Running
            /\ Leaves(o, Call("alloc", 0, size, FALSE, o.ret, o.ret))
            /\ UNCHANGED <<freed, heaps, regs, image, mem, blocks, objects>>

\* Mappings::grow(addr, min_growth), at the addresses of the table and at others
Grow ==
    \E addr \in {2 * PAGE} \cup {mappings[i].addr : i \in DOMAIN mappings},
       min_growth \in GrowthInputs :
        LET o == grow(mappings, addr, min_growth, overflow_checks, memLen)
        IN  /\ Running
            /\ Leaves(o, Call("grow", addr, min_growth, FALSE, o.ret, 0))
            /\ UNCHANGED <<freed, heaps, regs, image, mem, blocks, objects>>

\* VirtualAlloc(lpAddress, dwSize, _, _): a known address is returned as it is, an
\* unknown one fails with 0, and address 0 allocates
VirtualAlloc ==
    \E lpAddress \in {0, PAGE, 3 * PAGE}, dwSize \in {1, 2 * PAGE} :
        /\ Running
        /\ IF lpAddress # 0
           THEN /\ Leaves(Outcome("ok", mappings, memLen, 0),
                          Call("VirtualAlloc", lpAddress, dwSize, FALSE,
                               IF PositionAt(mappings, lpAddress) < 0 THEN 0 ELSE lpAddress,
                               0))
           ELSE LET o == alloc(mappings, dwSize, overflow_checks, memLen)
                IN  Leaves(o, Call("VirtualAlloc", lpAddress, dwSize, FALSE,
                                      IF o.st = "ok" THEN o.tbl[o.ret].addr ELSE 0, o.ret))
        /\ UNCHANGED <<freed, heaps, regs, image, mem, blocks, objects>>

\* VirtualFree(lpAddress, dwSize, dwFreeType): logs and returns 1
VirtualFree ==
    \E lpAddress \in {0, PAGE} :
        /\ Running
        /\ Leaves(Outcome("ok", mappings, memLen, 1), Call("VirtualFree", lpAddress, 0, FALSE, 1, 0))
        /\ freed' = IF lpAddress = 0 \/ PositionAt(mappings, lpAddress) < 0
                    THEN freed
                    ELSE freed \cup {lpAddress}
        /\ UNCHANGED <<heaps, regs, image, mem, blocks, objects>>

\* HeapCreateFlags::from_bits: HEAP_CREATE_ENABLE_EXECUTE, HEAP_GENERATE_EXCEPTIONS and
\* HEAP_NO_SERIALIZE in any combination
HeapCreateFlags == {a + b + c : a \in {0, 262144}, b \in {0, 4}, c \in {0, 1}}

MiB == 2^20

\* kernel32.new_heap(memory, size, desc): a mapping of the size from Mappings::alloc,
\* registered as a heap under its address, which is the handle returned
new_heap(ms, size, oc, len) == alloc(ms, size, oc, len)

FlagInputs == {0, 2}

HeapSizeInputs == {0, MiB + 1, 21 * MiB}

\* HeapCreate(flOptions, dwInitialSize, dwMaximumSize)
HeapCreate ==
    \E flOptions \in FlagInputs, dwInitialSize \in HeapSizeInputs :
        LET size == Max(dwInitialSize, MiB)
            o == IF flOptions \notin HeapCreateFlags
                 THEN Outcome("panic", mappings, memLen, 0)
                 ELSE new_heap(mappings, size, overflow_checks, memLen)
            handle == IF o.st = "ok" THEN o.tbl[o.ret].addr ELSE 0
        IN  /\ Running
            /\ Leaves(o, Call("HeapCreate", flOptions, dwInitialSize, FALSE, handle, o.ret))
            /\ heaps' = IF o.st = "ok" THEN heaps \cup {handle} ELSE heaps
            /\ UNCHANGED <<freed, regs, image, mem, blocks, objects>>

\* HeapDestroy(hHeap): logs and returns 1
HeapDestroy ==
    \E hHeap \in {PAGE} :
        /\ Running
        /\ Leaves(Outcome("ok", mappings, memLen, 1), Call("HeapDestroy", hHeap, 0, FALSE, 1, 0))
        /\ UNCHANGED <<freed, heaps, regs, image, mem, blocks, objects>>

\* ------------------------------------------------------------------ load_exe
\* load_exe's call of Mappings::add names no truncate_previous.  Every section of a
\* PE begins where the mapping before it ends, which add counts as a conflict, so
\* an image loads only when the loader lets add truncate.
LoaderTruncates == TRUE

\* the default process heap kernel32.init creates
ProcessHeapSize == 16 * MiB

\* kernel32.init(mem, cmdline): the process heap, which holds the TEB and the
\* command line
init(ms, oc, len) == new_heap(ms, ProcessHeapSize, oc, len)

Section(va, vsize, raw, load) ==
    [VirtualAddress |-> va, VirtualSize |-> vsize, SizeOfRawData |-> raw, load_data |-> load]

\* the for loop of load_exe from section i on: copies the section's file data into
\* mem (a slice past mem.len() panics), then adds its mapping
RECURSIVE loadSections(_, _, _, _, _, _)
loadSections(ms, sections, i, base, oc, len) ==
    IF i > Len(sections) THEN Outcome("ok", ms, len, 0)
    ELSE LET sec == sections[i]
             dst == base + sec.VirtualAddress
             data_size == sec.SizeOfRawData
             o == add(ms, Mapping(dst, sec.VirtualSize), LoaderTruncates, oc, len)
         IN  IF sec.load_data /\ data_size > 0 /\ dst + data_size > len
             THEN Outcome("panic", ms, len, 0)
             ELSE IF o.st # "ok" THEN o
             ELSE loadSections(o.tbl, sections, i + 1, base, oc, len)

\* SizeOfStackReserve, or 32 KiB when it is above 1 MiB
stack_size(SizeOfStackReserve) ==
    IF SizeOfStackReserve > MiB THEN 32 * 1024 ELSE SizeOfStackReserve

\* load_exe up to its sections: mem resized to the image, the PE header mapping
\* and its bytes (a slice past mem.len() panics), then the sections
loadImage(ms, pe, oc) ==
    LET base == pe.ImageBase
        image_size == Min(pe.SizeOfImage, 10 * MiB)
        len == base + image_size
        h == add(ms, Mapping(base, PAGE), LoaderTruncates, oc, len)
    IN  IF h.st # "ok" THEN h
        ELSE IF base + PAGE > len THEN Outcome("panic", h.tbl, len, 0)
        ELSE loadSections(h.tbl, pe.sections, 1, base, oc, len)

\* the rest of load_exe's memory set-up: kernel32.init and the stack mapping; ret
\* is the index of the stack, heap the address of the process heap
loadKernel(img, pe, oc) ==
    LET k == init(img.tbl, oc, img.len)
        stack == alloc(k.tbl, stack_size(pe.SizeOfStackReserve), oc, k.len)
    IN  IF img.st # "ok" THEN [o |-> img, heap |-> 0]
        ELSE IF k.st # "ok" THEN [o |-> k, heap |-> 0]
        ELSE [o |-> stack, heap |-> k.tbl[k.ret].addr]

\* the sections of the images loaded: E1's .text, a section of uninitialised data
\* after it, a section that begins inside the header's page, and a section of
\* uninitialised data past the first 10 MiB of a large image
Text == Section(4096, 768, 512, TRUE)
Bss == Section(8192, 4097, 0, FALSE)
Packed == Section(2048, 4096, 0, FALSE)
HighBss == Section(10 * MiB + 4096, 4096, 0, FALSE)

Image(size, sections) == [SizeOfImage |-> size, sections |-> sections]

\* the images loaded: sections in order inside SizeOfImage, sections out of order,
\* an image above the 10 MiB cap, and a SizeOfImage below one page
Images == {Image(16384, <<>>), Image(16384, <<Text>>), Image(16384, <<Text, Bss>>),
           Image(16384, <<Packed>>), Image(16384, <<Bss, Text>>),
           Image(11 * MiB, <<Text, HighBss>>), Image(2048, <<>>)}

ImageBases == {65536, 4194304}

StackReserves == {0, 4096, 65536, MiB + 1}

\* the bytes load_exe copies to the image base, the first 0x1000 bytes of the file:
\* a PE file begins with the signature "MZ".  The other bytes of the file are not
\* followed and read as 0.
HeaderBytes(base) == (base :> 77) @@ (base + 1 :> 90)

\* load_exe(machine, buf, cmdline), the file parsed into pe: the mappings, then
\* esp and ebp at the last word of the stack mapping
LoadExe ==
    \E base \in ImageBases, img \in Images, reserve \in StackReserves :
        LET pe == [ImageBase |-> base, SizeOfImage |-> img.SizeOfImage,
                   sections |-> img.sections, SizeOfStackReserve |-> reserve]
            r == loadKernel(loadImage(mappings, pe, overflow_checks), pe, overflow_checks)
            o == r.o
            stack == IF o.st = "ok" THEN o.tbl[o.ret] ELSE Mapping(0, 0)
            underflow == overflow_checks /\ (AddOvf(stack.addr, stack.size) \/ End(stack) < 4)
            stack_end == WrapSub(WrapAdd(stack.addr, stack.size), 4)
            ok == o.st = "ok" /\ ~underflow
        IN  /\ status = "run"
            /\ ~image.loaded
            /\ calls = 0
            /\ mappings' = o.tbl
            /\ memLen' = o.len
            /\ status' = IF ok THEN "run" ELSE "panic"
            /\ last' = Call("load_exe", base, img.SizeOfImage, FALSE, 0, o.ret)
            /\ image' = [loaded |-> TRUE, base |-> base, size_of_image |-> img.SizeOfImage,
                         sections |-> img.sections, stack_reserve |-> reserve,
                         stack |-> stack, heap |-> r.heap]
            /\ regs' = IF ok THEN [esp |-> stack_end, ebp |-> stack_end] ELSE regs
            /\ heaps' = IF o.st = "ok" THEN heaps \cup {r.heap} ELSE heaps
            /\ mem' = IF o.st = "ok" THEN HeaderBytes(base) ELSE mem
            /\ UNCHANGED <<overflow_checks, calls, freed, blocks, objects, dcs, windows>>

\* ------------------------------------------------------------- guest bytes
\* mem[a]: a byte that was never written is 0 (mem.resize(len, 0))
Read(m, a) == IF a \in DOMAIN m THEN m[a] ELSE 0

Range(a, n) == a..(a + n - 1)

\* slice.fill(0) on the n bytes at a
Fill0(m, a, n) == [x \in DOMAIN m \ Range(a, n) |-> m[x]]

\* one byte stored at a
Poke(m, a, v) ==
    IF v = 0 THEN [x \in DOMAIN m \ {a} |-> m[x]]
    ELSE [x \in DOMAIN m \cup {a} |-> IF x = a THEN v ELSE m[x]]

\* a u32 stored at a, little-endian
PokeU32(m, a, v) ==
    Poke(Poke(Poke(Poke(m, a, v % 256), a + 1, (v \div 256) % 256),
              a + 2, (v \div 65536) % 256), a + 3, (v \div 16777216) % 256)

\* slice.copy_within(src..src + count, dst): the count bytes at src as they were
\* before the call, stored at dst
copy_within(m, src, count, dst) ==
    LET moved == {x \in DOMAIN m : x \in Range(src, count)}
        dom == (DOMAIN m \ Range(dst, count)) \cup {x - src + dst : x \in moved}
    IN  [x \in dom |-> IF x \in Range(dst, count) THEN m[x - dst + src] ELSE m[x]]

\* ------------------------------------------------------------------- heaps
\* behaviours of the heap calls are explored up to this many calls
MaxHeapCalls == 3

Block(heap, addr, size) == [heap |-> heap, addr |-> addr, size |-> size]

Align4(a) == ((a + 3) \div 4) * 4

BlocksOf(bs, h) == {b \in bs : b.heap = h}

\* kernel32.get_heap(hHeap)
get_heap(hs, hHeap) == hHeap \in hs

\* the places heap.alloc may grant n bytes of heap h: 4-byte aligned, inside the
\* heap's mapping, clear of the blocks granted and not freed; the start of the heap
\* and the first aligned address after each block are the candidates
Fits(ms, bs, h, n) ==
    LET heap == ms[PositionAt(ms, h) + 1] IN
    {a \in {h} \cup {Align4(b.addr + b.size) : b \in BlocksOf(bs, h)} :
        /\ a + n <= End(heap)
        /\ \A b \in BlocksOf(bs, h) : a + n <= b.addr \/ b.addr + b.size <= a}

\* heap.alloc(mem, n): one of the places that fit, 0 when there is none
heap_alloc(ms, bs, h, n) ==
    IF Fits(ms, bs, h, n) = {} THEN {0} ELSE Fits(ms, bs, h, n)

\* heap.size(mem, addr) of a block granted
heap_size(bs, h, addr) == (CHOOSE b \in BlocksOf(bs, h) : b.addr = addr).size

\* heap.free(mem, addr)
heap_free(bs, h, addr) == {b \in bs : ~(b.heap = h /\ b.addr = addr)}

\* HeapAllocFlags::from_bits: HEAP_NO_SERIALIZE, HEAP_GENERATE_EXCEPTIONS and
\* HEAP_ZERO_MEMORY in any combination
HeapAllocFlags == {a + b + c : a \in {0, 1}, b \in {0, 4}, c \in {0, 8}}

\* the bit HEAP_ZERO_MEMORY of dwFlags
HasZeroMemory(dwFlags) == (dwFlags \div 8) % 2 = 1

\* flags.contains(HEAP_ZERO_MEMORY) of the flags HeapAlloc parsed: dwFlags with a bit
\* outside HeapAllocFlags are replaced by the empty flags
ZeroMemory(dwFlags) == dwFlags \in HeapAllocFlags /\ HasZeroMemory(dwFlags)

\* the program whose heap calls are followed: E1 at 0x400000 with a 64 KiB stack
RunsE1 ==
    /\ image.loaded
    /\ image.base = 4194304
    /\ image.sections = <<Text>>
    /\ image.stack_reserve = 65536

HeapRunning == status = "run" /\ RunsE1 /\ calls < MaxHeapCalls

\* the handles passed: the process heap and one that names no heap
HeapHandles == {image.heap, 4660}

\* the flags passed: none, HEAP_ZERO_MEMORY, HEAP_ZERO_MEMORY with
\* HEAP_GENERATE_EXCEPTIONS, HEAP_ZERO_MEMORY with the unknown bit 2
HeapAllocFlagInputs == {0, 8, 12, 10}

\* the sizes passed: a word, four words, and more than the process heap holds
HeapBytes == {4, 16, ProcessHeapSize + 4}

\* a heap call: its arguments and the value it returned
HeapCall(op, hHeap, lpMem, dwBytes, dwFlags, ret) ==
    [op |-> op, hHeap |-> hHeap, lpMem |-> lpMem, dwBytes |-> dwBytes, dwFlags |-> dwFlags,
     ret |-> ret]

\* the state a heap call leaves
HeapLeaves(st, m, bs, call) ==
    /\ status' = st
    /\ mem' = m
    /\ blocks' = bs
    /\ last' = call
    /\ calls' = calls + 1
    /\ UNCHANGED <<mappings, memLen, overflow_checks, freed, heaps, regs, image, dcs, windows>>

\* HeapAlloc(hHeap, dwFlags, dwBytes); mem.sub(addr, dwBytes) past mem.len() panics
HeapAlloc ==
    \E hHeap \in HeapHandles, dwFlags \in HeapAllocFlagInputs, dwBytes \in HeapBytes :
        /\ HeapRunning
        /\ objects' = objects
        /\ IF ~get_heap(heaps, hHeap)
           THEN HeapLeaves("run", mem, blocks, HeapCall("HeapAlloc", hHeap, 0, dwBytes, dwFlags, 0))
           ELSE \E addr \in heap_alloc(mappings, blocks, hHeap, dwBytes) :
                  LET granted == IF addr = 0 THEN blocks
                                 ELSE blocks \cup {Block(hHeap, addr, dwBytes)}
                      call == HeapCall("HeapAlloc", hHeap, 0, dwBytes, dwFlags, addr)
                  IN  IF ~ZeroMemory(dwFlags) THEN HeapLeaves("run", mem, granted, call)
                      ELSE IF addr + dwBytes > memLen
                      THEN HeapLeaves("panic", mem, granted, call)
                      ELSE HeapLeaves("run", Fill0(mem, addr, dwBytes), granted, call)

\* HeapFree(hHeap, dwFlags, lpMem) of a block granted
HeapFree ==
    \E hHeap \in HeapHandles, b \in blocks :
        /\ HeapRunning
        /\ objects' = objects
        /\ IF ~get_heap(heaps, hHeap)
           THEN HeapLeaves("run", mem, blocks, HeapCall("HeapFree", hHeap, b.addr, 0, 0, 0))
           ELSE HeapLeaves("run", mem, heap_free(blocks, hHeap, b.addr),
                           HeapCall("HeapFree", hHeap, b.addr, 0, 0, 1))

\* HeapSize(hHeap, dwFlags, lpMem) of a block granted
HeapSize ==
    \E hHeap \in HeapHandles, b \in blocks :
        /\ HeapRunning
        /\ objects' = objects
        /\ HeapLeaves("run", mem, blocks,
                      HeapCall("HeapSize", hHeap, b.addr, 0, 0,
                               IF get_heap(heaps, hHeap) THEN heap_size(blocks, hHeap, b.addr)
                               ELSE 0))

\* HeapReAlloc(hHeap, dwFlags, lpMem, dwBytes) of a block granted; copy_within of a
\* range past mem.len() panics
HeapReAlloc ==
    \E hHeap \in HeapHandles, b \in blocks, dwBytes \in HeapBytes :
        /\ HeapRunning
        /\ objects' = objects
        /\ IF ~get_heap(heaps, hHeap)
           THEN HeapLeaves("run", mem, blocks, HeapCall("HeapReAlloc", hHeap, b.addr, dwBytes, 0, 0))
           ELSE LET lpMem == b.addr
                    old_size == heap_size(blocks, hHeap, lpMem)
                IN  \E new_addr \in heap_alloc(mappings, blocks, hHeap, dwBytes) :
                      LET granted == IF new_addr = 0 THEN blocks
                                     ELSE blocks \cup {Block(hHeap, new_addr, dwBytes)}
                          call == HeapCall("HeapReAlloc", hHeap, lpMem, dwBytes, 0, new_addr)
                      IN  IF lpMem + old_size > memLen \/ new_addr + old_size > memLen
                          THEN HeapLeaves("panic", mem, granted, call)
                          ELSE HeapLeaves("run", copy_within(mem, lpMem, old_size, new_addr),
                                          granted, call)

\* the guest program stores a byte in the first or the last byte of a block it was
\* granted
Store ==
    \E b \in blocks : \E addr \in {b.addr, b.addr + b.size - 1} :
        /\ HeapRunning
        /\ objects' = objects
        /\ HeapLeaves("run", Poke(mem, addr, 170), blocks, HeapCall("store", 0, addr, 1, 0, 0))

\* ------------------------------------------------------------ CreateDIBSection
BitmapInfoHeader(biSize, biWidth, biHeight, biBitCount, biCompression) ==
    [biSize |-> biSize, biWidth |-> biWidth, biHeight |-> biHeight,
     biBitCount |-> biBitCount, biCompression |-> biCompression]

\* std::mem::size_of::<BITMAPINFOHEADER>()
SizeOfHeader == 40

\* BITMAPINFOHEADER::is_top_down, height, width, stride (of a 32-bit row)
is_top_down(bi) == bi.biHeight < 0
height(bi) == IF bi.biHeight < 0 THEN 0 - bi.biHeight ELSE bi.biHeight
width(bi) == bi.biWidth
stride(bi) == bi.biWidth * 4

\* BI::RGB and BI::BITFIELDS
SupportedCompressions == {0, 3}

\* kernel32::GetProcessHeap
GetProcessHeap == image.heap

\* the headers passed: a top-down and a bottom-up pixel, a bitmap larger than the
\* process heap, a BITMAPCOREHEADER-sized header, an 8-bit and an RLE bitmap
BitmapInfos ==
    {BitmapInfoHeader(40, 1, -1, 32, 0), BitmapInfoHeader(40, 1, 1, 32, 3),
     BitmapInfoHeader(40, 2048, -2049, 32, 0), BitmapInfoHeader(12, 1, -1, 32, 0),
     BitmapInfoHeader(40, 1, -1, 8, 0), BitmapInfoHeader(40, 1, -1, 32, 1)}

PixelDataPtr(addr, len) == [kind |-> "Ptr", addr |-> addr, len |-> len]

BitmapRGBA32(w, h, pixels) == [width |-> w, height |-> h, pixels |-> pixels]

\* CreateDIBSection(hdc, pbmi, usage, ppvBits, hSection, offset) with usage
\* DIB_RGB_COLORS and no section, ppvBits the word at esp: the pixels come from
\* HeapAlloc on the process heap with no flags, their address is stored through
\* ppvBits and the bitmap is registered
CreateDIBSection ==
    \E bi \in BitmapInfos :
        LET unsupported == \/ bi.biSize # SizeOfHeader
                           \/ bi.biBitCount # 32
                           \/ bi.biCompression \notin SupportedCompressions
            product == stride(bi) * height(bi)
            byte_count == product % U32
            heap == GetProcessHeap
            ppvBits == regs.esp
        IN  /\ HeapRunning
            /\ IF unsupported \/ (overflow_checks /\ product >= U32)
               THEN /\ HeapLeaves("panic", mem, blocks,
                                  HeapCall("CreateDIBSection", heap, 0, byte_count, 0, 0))
                    /\ objects' = objects
               ELSE \E pixels \in (IF get_heap(heaps, heap)
                                   THEN heap_alloc(mappings, blocks, heap, byte_count)
                                   ELSE {0}) :
                      /\ HeapLeaves("run", PokeU32(mem, ppvBits, pixels),
                                    IF pixels = 0 THEN blocks
                                    ELSE blocks \cup {Block(heap, pixels, byte_count)},
                                    HeapCall("CreateDIBSection", heap, pixels, byte_count, 0,
                                             Len(objects) + 1))
                      /\ objects' = Append(objects,
                                           BitmapRGBA32(width(bi), height(bi),
                                                        PixelDataPtr(pixels, byte_count)))

\* --------------------------------------------------------------------- i32
\* an i32 is modelled as wide as a u32 is: the signed values of a U32-valued word
I32Max == (U32 \div 2) - 1
I32Min == 0 - (U32 \div 2)

\* the i32 a release build computes for the exact value v; a debug build panics
\* when v is not an i32
WrapI32(v) == ((v - I32Min) % U32) + I32Min
I32Ovf(v) == v > I32Max \/ v < I32Min

\* ------------------------------------------------------------ rects, pixels
RECT(left, top, right, bottom) ==
    [left |-> left, top |-> top, right |-> right, bottom |-> bottom]

\* RECT::add(POINT { x, y }): the four sides moved, each an i32 sum
rect_add(r, x, y) ==
    RECT(WrapI32(r.left + x), WrapI32(r.top + y), WrapI32(r.right + x), WrapI32(r.bottom + y))

\* one of rect_add's sums overflows
rect_add_ovf(r, x, y) ==
    I32Ovf(r.left + x) \/ I32Ovf(r.top + y) \/ I32Ovf(r.right + x) \/ I32Ovf(r.bottom + y)

\* RECT::clip(other): the intersection, empty when right <= left or bottom <= top
rect_clip(r, o) ==
    RECT(Max(r.left, o.left), Max(r.top, o.top), Min(r.right, o.right), Min(r.bottom, o.bottom))

\* BitmapRGBA32::to_rect
to_rect(bmp) == RECT(0, 0, bmp.width, bmp.height)

\* the points fill_pixels visits: for y in r.top..r.bottom, for x in r.left..r.right
Points(r) == {<<x, y>> : x \in r.left..(r.right - 1), y \in r.top..(r.bottom - 1)}

InRect(r, x, y) == r.left <= x /\ x < r.right /\ r.top <= y /\ y < r.bottom

\* PixelData::Owned(pixels): the pixels [r, g, b, a] in row order
PixelDataOwned(data) == [kind |-> "Owned", data |-> data]

\* the pixel slice of a bitmap, indexed from 0 by the code and from 1 here
pixels_slice(bmp) == bmp.pixels.data

\* Object::Pen(Pen { color }), Object::Brush(Brush { color }) with color a COLORREF
\* or None
Pen(color) == [kind |-> "Pen", color |-> color]
Brush(color) == [kind |-> "Brush", color |-> color]
None == 0 - 1

\* Object::Bitmap(BitmapType::RGBA32(bmp))
IsRGBA32(obj) == "pixels" \in DOMAIN obj

\* COLORREF::from_rgb, COLORREF::to_pixel, COLORREF::white
from_rgb(r, g, b) == r + 256 * g + 65536 * b

\* the four bytes of the colour, the top byte kept as alpha
to_pixel_keeping_top_byte(c) ==
    <<c % 256, (c \div 256) % 256, (c \div 65536) % 256, (c \div 16777216) % 256>>

to_pixel(c) == <<c % 256, (c \div 256) % 256, (c \div 65536) % 256, 255>>
white == from_rgb(255, 255, 255)

\* CLR_INVALID: the word with every bit set
CLR_INVALID == U32 - 1

\* DCTarget and DC
Memory(bitmap) == [kind |-> "Memory", h |-> bitmap]
Window(hwnd) == [kind |-> "Window", h |-> hwnd]
DirectDrawSurface(ptr, w, h) == [kind |-> "DirectDrawSurface", h |-> ptr, width |-> w, height |-> h]

COPYPEN == 13
WHITE == 16
R2 == {COPYPEN, WHITE}

DC(target, x, y, pen, brush, r2) ==
    [target |-> target, x |-> x, y |-> y, pen |-> pen, brush |-> brush, r2 |-> r2]

\* a window: its size and window.bitmap_mut(), the back buffer of that size
WindowOf(w, h, data) == [width |-> w, height |-> h, bitmap |-> BitmapRGBA32(w, h, PixelDataOwned(data))]

\* the outcome of a gdi call: how it ended, the objects, windows and dcs it left,
\* its value
GdiOutcome(st, objs, wins, ds, ret) ==
    [st |-> st, objs |-> objs, wins |-> wins, ds |-> ds, ret |-> ret]

\* fill_pixels(dst, r, op) when no index is out of the slice: pixel y * stride + x
\* of every point of r is op(x, y), the closure op given as its value op[<<x, y>>] at
\* each point of r; stride is positive and r inside dst, so no two points share an
\* index
fill_pixels(dst, r, op) ==
    LET row == dst.width IN
    [dst EXCEPT !.pixels.data =
        [i \in DOMAIN @ |->
            LET x == (i - 1) % row
                y == (i - 1) \div row
            IN  IF InRect(r, x, y) THEN op[<<x, y>>] ELSE @[i]]]

\* fill_pixels indexes out of pixels: (y * stride + x) as usize of some point of r
\* is not below pixels.len(), or r reaches out of a row
fill_pixels_panics(dst, r) ==
    \E p \in Points(r) :
        \/ p[2] * dst.width + p[1] < 0
        \/ p[2] * dst.width + p[1] >= Len(pixels_slice(dst))
        \/ p[1] < 0
        \/ p[1] >= dst.width

\* enum RasterOp
SRCCOPY == 13369376
NOTSRCCOPY == 3342344
SRCAND == 8913094
PATCOPY == 15728673
BLACKNESS == 66
RasterOp == {SRCCOPY, NOTSRCCOPY, SRCAND, PATCOPY, BLACKNESS}

\* PatBlt(hdc, x, y, w, h, rop)
patBlt(objs, wins, ds, oc, hdc, x, y, w, h, rop) ==
    LET dc == ds[hdc]
        brush == IF dc.brush \in DOMAIN objs THEN objs[dc.brush] ELSE Pen(0)
        color == IF rop = PATCOPY
                 THEN IF "kind" \in DOMAIN brush /\ brush.kind = "Brush" /\ brush.color # None
                      THEN to_pixel(brush.color)
                      ELSE <<255, 255, 255, 255>>
                 ELSE <<0, 0, 0, 255>>
        dst_rect == RECT(x, y, WrapI32(x + w), WrapI32(y + h))
        Color(px, py) == color
    IN  IF rop \notin RasterOp THEN GdiOutcome("panic", objs, wins, ds, 0)
        ELSE IF hdc \notin DOMAIN ds THEN GdiOutcome("ok", objs, wins, ds, 0)
        ELSE IF rop \notin {PATCOPY, BLACKNESS} THEN GdiOutcome("panic", objs, wins, ds, 0)
        ELSE IF oc /\ (I32Ovf(x + w) \/ I32Ovf(y + h)) THEN GdiOutcome("panic", objs, wins, ds, 0)
        ELSE IF dc.target.kind = "Memory"
        THEN IF dc.target.h \notin DOMAIN objs \/ ~IsRGBA32(objs[dc.target.h])
             THEN GdiOutcome("panic", objs, wins, ds, 0)
             ELSE LET bitmap == objs[dc.target.h]
                      r == rect_clip(dst_rect, to_rect(bitmap))
                  IN  IF fill_pixels_panics(bitmap, r)
                      THEN GdiOutcome("panic", objs, wins, ds, 0)
                      ELSE GdiOutcome("ok", [objs EXCEPT ![dc.target.h] = fill_pixels(bitmap, r, [p \in Points(r) |-> Color(p[1], p[2])])],
                                      wins, ds, 1)
        ELSE IF dc.target.kind = "Window"
        THEN IF dc.target.h # 1 THEN GdiOutcome("ok", objs, wins, ds, 0)
             ELSE IF dc.target.h \notin DOMAIN wins THEN GdiOutcome("panic", objs, wins, ds, 0)
             ELSE LET bitmap == wins[dc.target.h].bitmap
                      r == rect_clip(dst_rect, to_rect(bitmap))
                  IN  IF fill_pixels_panics(bitmap, r)
                      THEN GdiOutcome("panic", objs, wins, ds, 0)
                      ELSE GdiOutcome("ok", objs,
                                      [wins EXCEPT ![dc.target.h].bitmap = fill_pixels(bitmap, r, [p \in Points(r) |-> Color(p[1], p[2])])],
                                      ds, 1)
        ELSE GdiOutcome("panic", objs, wins, ds, 0)

\* the bitmap of the DC after the one asked for
source_bitmap_of_next_dc(objs, wins, ds, hdcSrc) ==
    LET src_dc == ds[hdcSrc + 1]
    IN  IF src_dc.target.kind = "Memory" THEN objs[src_dc.target.h]
        ELSE wins[src_dc.target.h].bitmap

\* src_bitmap of BitBlt: a clone of the bitmap selected in the memory DC hdcSrc, or
\* of the back buffer of the window of the window DC hdcSrc
source_bitmap(objs, wins, ds, hdcSrc) ==
    LET src_dc == ds[hdcSrc]
    IN  IF src_dc.target.kind = "Memory" THEN objs[src_dc.target.h]
        ELSE wins[src_dc.target.h].bitmap

\* BitBlt(hdc, x, y, cx, cy, hdcSrc, x1, y1, rop).  The pixel the closure hands to
\* fill_pixels for (dx, dy) is src[(y1 + dy - y) * src_bitmap.width + (x1 + dx - x)];
\* rop is read only to tell BLACKNESS.
bitBlt(objs, wins, ds, oc, hdc, x, y, cx, cy, hdcSrc, x1, y1, rop) ==
    IF rop \notin RasterOp THEN GdiOutcome("panic", objs, wins, ds, 0)
    ELSE IF rop = BLACKNESS THEN patBlt(objs, wins, ds, oc, hdc, x, y, cx, cy, BLACKNESS)
    ELSE IF hdcSrc \notin DOMAIN ds THEN GdiOutcome("panic", objs, wins, ds, 0)
    ELSE
    LET src_dc == ds[hdcSrc]
        src_known ==
            \/ src_dc.target.kind = "Memory" /\ src_dc.target.h \in DOMAIN objs
                  /\ IsRGBA32(objs[src_dc.target.h])
            \/ src_dc.target.kind = "Window" /\ src_dc.target.h \in DOMAIN wins
        src_bitmap == source_bitmap(objs, wins, ds, hdcSrc)
        src == pixels_slice(src_bitmap)
        dst_dc == ds[hdc]
        copy_rect0 == RECT(0, 0, cx, cy)
        dst_rect == rect_add(copy_rect0, x, y)
        src_rect == rect_clip(rect_add(copy_rect0, x1, y1), to_rect(src_bitmap))
        shift_x == WrapI32(x - x1)
        shift_y == WrapI32(y - y1)
        copy_rect == rect_clip(dst_rect, rect_add(src_rect, shift_x, shift_y))
        rect_ovf == \/ rect_add_ovf(copy_rect0, x, y)
                    \/ rect_add_ovf(copy_rect0, x1, y1)
                    \/ I32Ovf(x - x1)
                    \/ I32Ovf(y - y1)
                    \/ rect_add_ovf(src_rect, shift_x, shift_y)
        \* the closure: the source position of (dx, dy) and the index read
        SrcX(dx) == WrapI32(WrapI32(x1 + dx) - x)
        SrcY(dy) == WrapI32(WrapI32(y1 + dy) - y)
        SrcIndex(dx, dy) == WrapI32(WrapI32(SrcY(dy) * src_bitmap.width) + SrcX(dx))
        closure_ovf(dx, dy) ==
            \/ I32Ovf(x1 + dx) \/ I32Ovf(WrapI32(x1 + dx) - x)
            \/ I32Ovf(y1 + dy) \/ I32Ovf(WrapI32(y1 + dy) - y)
            \/ I32Ovf(SrcY(dy) * src_bitmap.width)
            \/ I32Ovf(WrapI32(SrcY(dy) * src_bitmap.width) + SrcX(dx))
        closure_panics(r) ==
            \E p \in Points(r) :
                \/ oc /\ closure_ovf(p[1], p[2])
                \/ SrcIndex(p[1], p[2]) < 0
                \/ SrcIndex(p[1], p[2]) >= Len(src)
        Copy(dx, dy) == src[SrcIndex(dx, dy) + 1]
        CopyOpaque(dx, dy) == [Copy(dx, dy) EXCEPT ![4] = 255]
    IN  IF ~src_known THEN GdiOutcome("panic", objs, wins, ds, 0)
        ELSE IF hdc \notin DOMAIN ds THEN GdiOutcome("panic", objs, wins, ds, 0)
        ELSE IF oc /\ rect_ovf THEN GdiOutcome("panic", objs, wins, ds, 0)
        ELSE IF dst_dc.target.kind = "Memory"
        THEN IF dst_dc.target.h \notin DOMAIN objs \/ ~IsRGBA32(objs[dst_dc.target.h])
             THEN GdiOutcome("panic", objs, wins, ds, 0)
             ELSE LET dst == objs[dst_dc.target.h]
                      r == rect_clip(copy_rect, to_rect(dst))
                  IN  IF fill_pixels_panics(dst, r) \/ closure_panics(r)
                      THEN GdiOutcome("panic", objs, wins, ds, 0)
                      ELSE GdiOutcome("ok", [objs EXCEPT ![dst_dc.target.h] = fill_pixels(dst, r, [p \in Points(r) |-> Copy(p[1], p[2])])],
                                      wins, ds, 1)
        ELSE IF dst_dc.target.kind = "Window"
        THEN IF dst_dc.target.h \notin DOMAIN wins THEN GdiOutcome("panic", objs, wins, ds, 0)
             ELSE LET dst == wins[dst_dc.target.h].bitmap
                      r == rect_clip(copy_rect, to_rect(dst))
                  IN  IF fill_pixels_panics(dst, r) \/ closure_panics(r)
                      THEN GdiOutcome("panic", objs, wins, ds, 0)
                      ELSE GdiOutcome("ok", objs,
                                      [wins EXCEPT ![dst_dc.target.h].bitmap =
                                          fill_pixels(dst, r, [p \in Points(r) |-> CopyOpaque(p[1], p[2])])],
                                      ds, 1)
        ELSE \* DirectDrawSurface: the asserts, then the host surface takes the pixels
             IF /\ x = 0 /\ y = 0 /\ x1 = 0 /\ y1 = 0
                /\ cx = dst_dc.target.width /\ cy = dst_dc.target.height
                /\ dst_dc.target.width = src_bitmap.width
                /\ dst_dc.target.height = src_bitmap.height
             THEN GdiOutcome("ok", objs, wins, ds, 1)
             ELSE GdiOutcome("panic", objs, wins, ds, 0)

\* StretchBlt(hdcDest, xDest, yDest, wDest, hDest, hdcSrc, xSrc, ySrc, wSrc, hSrc, rop)
stretchBlt(objs, wins, ds, oc, hdcDest, xDest, yDest, wDest, hDest, hdcSrc, xSrc, ySrc, wSrc, hSrc, rop) ==
    IF wDest # wSrc \/ hDest # hSrc THEN GdiOutcome("panic", objs, wins, ds, 0)
    ELSE bitBlt(objs, wins, ds, oc, hdcDest, xDest, yDest, wDest, hDest, hdcSrc, xSrc, ySrc, rop)

\* ------------------------------------------------------------------ bit_blt
\* a & b of two bytes
RECURSIVE BitAnd(_, _)
BitAnd(a, b) ==
    IF a = 0 \/ b = 0 THEN 0
    ELSE (IF a % 2 = 1 /\ b % 2 = 1 THEN 1 ELSE 0) + 2 * BitAnd(a \div 2, b \div 2)

\* isize is as wide as the target's pointers: 64 bits on the native hosts, where
\* no sum or product of u32 values leaves it, and 32 bits on wasm32, where it is an
\* i32.  Values of the wide isize at or above IsizeFar are past every slice and
\* are kept as IsizeFar.
IsizeFar == U32

\* the isize of the exact value v, and whether computing it overflows
isize(v, wide) == IF wide THEN Min(v, IsizeFar) ELSE WrapI32(v)
isize_ovf(v, wide) == ~wide /\ I32Ovf(v)

\* a * n for a stride n
RECURSIVE isize_mul(_, _, _)
isize_mul(a, n, wide) == IF n = 0 THEN 0 ELSE isize(isize_mul(a, n - 1, wide) + a, wide)

RECURSIVE isize_mul_ovf(_, _, _)
isize_mul_ovf(a, n, wide) ==
    /\ n > 0
    /\ \/ isize_mul_ovf(a, n - 1, wide)
       \/ isize_ovf(isize_mul(a, n - 1, wide) + a, wide)

\* what a call of bit_blt leaves: how it ended and the destination pixels
BltOutcome(st, pixels) == [st |-> st, pixels |-> pixels]

\* the pixel bit_blt leaves in the destination for destination pixel d and source
\* pixel s
rop_pixel(rop, flush_alpha, d, s) ==
    LET v == IF rop = SRCCOPY THEN s
             ELSE IF rop = NOTSRCCOPY THEN <<255 - s[1], 255 - s[2], 255 - s[3], s[4]>>
             ELSE <<BitAnd(d[1], s[1]), BitAnd(d[2], s[2]), BitAnd(d[3], s[3]), BitAnd(d[4], s[4])>>
    IN  IF flush_alpha THEN [v EXCEPT ![4] = 255] ELSE v

\* the rows of bit_blt's loop from row on: c holds dx, dy, dstride, w, h, sx, sy,
\* sstride after the clamps
RECURSIVE bit_blt_rows(_, _, _, _, _, _, _, _)
bit_blt_rows(dst, src, c, row, flush_alpha, rop, oc, wide) ==
    IF row >= c.h THEN BltOutcome("ok", dst)
    ELSE
    LET drow == isize(c.dy + row, wide)
        srow == isize(c.sy + row, wide)
        dst_off == isize(isize_mul(drow, c.dstride, wide) + c.dx, wide)
        src_off == isize(isize_mul(srow, c.sstride, wide) + c.sx, wide)
        dst_end == isize(dst_off + c.w, wide)
        src_end == isize(src_off + c.w, wide)
        ovf == \/ isize_ovf(c.dy + row, wide) \/ isize_ovf(c.sy + row, wide)
               \/ isize_mul_ovf(drow, c.dstride, wide) \/ isize_mul_ovf(srow, c.sstride, wide)
               \/ isize_ovf(isize_mul(drow, c.dstride, wide) + c.dx, wide)
               \/ isize_ovf(isize_mul(srow, c.sstride, wide) + c.sx, wide)
               \/ isize_ovf(dst_off + c.w, wide) \/ isize_ovf(src_off + c.w, wide)
        \* &mut dst[dst_off as usize..][..w as usize] and the same of src
        sliced == /\ 0 <= dst_off /\ dst_off + c.w <= Len(dst)
                  /\ 0 <= src_off /\ src_off + c.w <= Len(src)
    IN  IF oc /\ ovf THEN BltOutcome("panic", dst)
        ELSE IF dst_end > Len(dst) \/ src_end > Len(src) THEN BltOutcome("ok", dst)
        ELSE IF ~sliced THEN BltOutcome("panic", dst)
        ELSE IF rop \notin {SRCCOPY, NOTSRCCOPY, SRCAND} THEN BltOutcome("panic", dst)
        ELSE bit_blt_rows(
                 [i \in DOMAIN dst |->
                     IF dst_off < i /\ i <= dst_off + c.w
                     THEN rop_pixel(rop, flush_alpha, dst[i], src[src_off + (i - dst_off)])
                     ELSE dst[i]],
                 src, c, row + 1, flush_alpha, rop, oc, wide)

\* bit_blt(dst, dx, dy, dstride, w, h, src, sx, sy, sstride, flush_alpha, rop)
bit_blt(dst, dx0, dy0, dstride, w0, h0, src, sx0, sy0, sstride, flush_alpha, rop, oc, wide) ==
    LET min_x == Min(dx0, sx0)
        min_y == Min(dy0, sy0)
        dx == IF min_x < 0 THEN isize(dx0 - min_x, wide) ELSE dx0
        sx == IF min_x < 0 THEN isize(sx0 - min_x, wide) ELSE sx0
        w1 == IF min_x < 0 THEN isize(w0 + min_x, wide) ELSE w0
        dy == IF min_y < 0 THEN isize(dy0 - min_y, wide) ELSE dy0
        sy == IF min_y < 0 THEN isize(sy0 - min_y, wide) ELSE sy0
        h == IF min_y < 0 THEN isize(h0 + min_y, wide) ELSE h0
        w2 == Min(w1, isize(dstride - dx, wide))
        w == Min(w2, isize(sstride - sx, wide))
        ovf == \/ /\ min_x < 0
                  /\ \/ isize_ovf(dx0 - min_x, wide) \/ isize_ovf(sx0 - min_x, wide)
                     \/ isize_ovf(w0 + min_x, wide)
               \/ /\ min_y < 0
                  /\ \/ isize_ovf(dy0 - min_y, wide) \/ isize_ovf(sy0 - min_y, wide)
                     \/ isize_ovf(h0 + min_y, wide)
               \/ isize_ovf(dstride - dx, wide) \/ isize_ovf(sstride - sx, wide)
    IN  IF oc /\ ovf THEN BltOutcome("panic", dst)
        ELSE IF w <= 0 \/ h <= 0 THEN BltOutcome("ok", dst)
        ELSE bit_blt_rows(dst, src,
                          [dx |-> dx, dy |-> dy, dstride |-> dstride, w |-> w, h |-> h,
                           sx |-> sx, sy |-> sy, sstride |-> sstride],
                          0, flush_alpha, rop, oc, wide)

\* const DIB_RGB_COLORS
DIB_RGB_COLORS == 0

\* SetDIBitsToDevice(hdc, xDest, yDest, w, h, xSrc, ySrc, StartScan, cLines, lpvBits,
\* lpbmi, ColorUse), with src_bitmap the bitmap BitmapRGBA32::parse reads at lpbmi
\* and lpvBits
setDIBitsToDevice(objs, wins, ds, oc, wide, src_bitmap, hdc, xDest, yDest, w, h, xSrc, ySrc, StartScan, cLines, ColorUse) ==
    IF StartScan # ySrc \/ cLines # h THEN GdiOutcome("panic", objs, wins, ds, 0)
    ELSE IF ColorUse # DIB_RGB_COLORS THEN GdiOutcome("panic", objs, wins, ds, 0)
    ELSE IF hdc \notin DOMAIN ds THEN GdiOutcome("panic", objs, wins, ds, 0)
    ELSE
    LET dc == ds[hdc]
        src == pixels_slice(src_bitmap)
        known == \/ dc.target.kind = "Memory" /\ dc.target.h \in DOMAIN objs
                    /\ IsRGBA32(objs[dc.target.h])
                 \/ dc.target.kind = "Window" /\ dc.target.h \in DOMAIN wins
        dst == IF dc.target.kind = "Memory" THEN objs[dc.target.h] ELSE wins[dc.target.h].bitmap
        flush_alpha == dc.target.kind = "Window"
        rows == Min(h, WrapSub(dst.height, yDest))
        o == bit_blt(pixels_slice(dst), isize(xDest, wide), isize(yDest, wide), dst.width,
                     isize(w, wide), isize(rows, wide), src, isize(xSrc, wide), isize(ySrc, wide),
                     src_bitmap.width, flush_alpha, SRCCOPY, oc, wide)
        drawn == [dst EXCEPT !.pixels.data = o.pixels]
    IN  IF ~known THEN GdiOutcome("panic", objs, wins, ds, 0)
        ELSE IF oc /\ SubOvf(dst.height, yDest) THEN GdiOutcome("panic", objs, wins, ds, 0)
        ELSE IF dc.target.kind = "Memory"
        THEN GdiOutcome(o.st, [objs EXCEPT ![dc.target.h] = drawn], wins, ds, cLines)
        ELSE GdiOutcome(o.st, objs, [wins EXCEPT ![dc.target.h].bitmap = drawn], ds, cLines)

\* StretchDIBits(hdc, xDest, yDest, DestWidth, DestHeight, xSrc, ySrc, SrcWidth,
\* SrcHeight, lpBits, lpbmi, iUsage, rop): differing extents are logged, no more
stretchDIBits(objs, wins, ds, oc, wide, src_bitmap, hdc, xDest, yDest, DestWidth, DestHeight, xSrc, ySrc, SrcWidth, SrcHeight, iUsage, rop) ==
    setDIBitsToDevice(objs, wins, ds, oc, wide, src_bitmap, hdc, xDest, yDest, SrcWidth, SrcHeight,
                      xSrc, ySrc, 0, SrcHeight, iUsage)

\* ------------------------------------------------------------ the gdi scene
\* behaviours of the gdi calls are explored up to this many calls
MaxGdiCalls == 1

\* the sizes of the source bitmap, the destination bitmap and the window
SrcW == 4
SrcH == 3
DstW == 3
DstH == 2
WinW == 3
WinH == 3

\* the pixels of the scene: every source pixel differs from every other and so
\* does every destination pixel; source pixel (0, 0) is (0x0F, 0xF0, 0xAA, 0x55)
\* and destination pixel (0, 0) is (0x10, 0x20, 0x30, 0xFF)
SrcPixel(x, y) == <<15 + x, 240 - y, 170, 85>>
DstPixel(x, y) == <<16 + x, 32 + y, 48, 255>>
WinPixel(x, y) == <<x, y, 7, 255>>

Raster(w, h, P(_, _)) == [i \in 1..(w * h) |-> P((i - 1) % w, (i - 1) \div w)]

\* the handles of the scene: bitmaps, pen and brush in gdi32.objects, the window,
\* and the DCs on the two bitmaps, the window and a DirectDraw surface
HSrcBitmap == 1
HDstBitmap == HSrcBitmap + 1
HPen == HDstBitmap + 1
HBrush == HPen + 1
HWnd == 1
HdcSrc == 1
HdcDst == HdcSrc + 1
HdcWin == HdcDst + 1
HdcSurface == HdcWin + 1

\* a program that created two bitmaps (CreateCompatibleBitmap) and drew into them
\* (SetDIBitsToDevice), a red pen and a green brush, a window, and DCs on them
InitScene ==
    /\ objects = <<BitmapRGBA32(SrcW, SrcH, PixelDataOwned(Raster(SrcW, SrcH, SrcPixel))),
                   BitmapRGBA32(DstW, DstH, PixelDataOwned(Raster(DstW, DstH, DstPixel))),
                   Pen(from_rgb(255, 0, 0)),
                   Brush(from_rgb(0, 255, 0))>>
    /\ windows = <<WindowOf(WinW, WinH, Raster(WinW, WinH, WinPixel))>>
    /\ dcs = <<DC(Memory(HSrcBitmap), 0, 0, HPen, HBrush, COPYPEN),
               DC(Memory(HDstBitmap), 0, 0, HPen, HBrush, COPYPEN),
               DC(Window(HWnd), 0, 0, HPen, HBrush, COPYPEN),
               DC(DirectDrawSurface(0, SrcW, SrcH), 0, 0, HPen, HBrush, COPYPEN)>>

GdiRunning == status = "run" /\ calls < MaxGdiCalls

\* the state a gdi call leaves
GdiLeaves(o, call) ==
    /\ status' = IF o.st = "ok" THEN "run" ELSE o.st
    /\ objects' = o.objs
    /\ windows' = o.wins
    /\ dcs' = o.ds
    /\ last' = call
    /\ calls' = calls + 1
    /\ UNCHANGED <<mappings, memLen, overflow_checks, freed, heaps, regs, image, mem, blocks>>

\* a blit: its arguments and the value it returned
BltCall(op, hdc, x, y, cx, cy, hdcSrc, x1, y1, wSrc, hSrc, rop, ret) ==
    [op |-> op, hdc |-> hdc, x |-> x, y |-> y, cx |-> cx, cy |-> cy, hdcSrc |-> hdcSrc,
     x1 |-> x1, y1 |-> y1, wSrc |-> wSrc, hSrc |-> hSrc, rop |-> rop, ret |-> ret]

\* the horizontal arguments x, cx, x1 passed: negative, inside, past the bitmaps and
\* at the ends of i32
BltXs == {I32Min, -1, 0, 1, I32Max}
BltCXs == {-1, 2, SrcW, I32Max}
BltX1s == {-1, 0, 2}

\* the vertical arguments <<y, cy, y1>> passed
BltYs == {<<-1, SrcH, 0>>, <<0, 1, 1>>, <<1, 5, -1>>}

\* the blits passed: every placement with SRCCOPY, and a few placements with every
\* RasterOp and a value that is none
Placement(x, cx, x1, yy) == [x |-> x, cx |-> cx, x1 |-> x1, y |-> yy[1], cy |-> yy[2], y1 |-> yy[3]]
Placements == {Placement(x, cx, x1, yy) : x \in BltXs, cx \in BltCXs, x1 \in BltX1s, yy \in BltYs}
RopPlacements == {Placement(x, 2, 0, yy) : x \in {-1, 0}, yy \in {<<0, 1, 1>>, <<0, 2, 0>>}}
RopInputs == RasterOp \cup {0}
BltInputs ==
    {<<p, SRCCOPY>> : p \in Placements} \cup {<<p, rop>> : p \in RopPlacements, rop \in RopInputs}

\* BitBlt from the DC of the source bitmap to the DC of the destination bitmap or
\* of the window
BitBlt ==
    \E hdc \in {HdcDst, HdcWin}, arg \in BltInputs :
        LET p == arg[1]
            rop == arg[2]
            o == bitBlt(objects, windows, dcs, overflow_checks,
                        hdc, p.x, p.y, p.cx, p.cy, HdcSrc, p.x1, p.y1, rop)
        IN  /\ GdiRunning
            /\ GdiLeaves(o, BltCall("BitBlt", hdc, p.x, p.y, p.cx, p.cy, HdcSrc, p.x1, p.y1,
                                    p.cx, p.cy, rop, o.ret))

\* a call on a DIB: its arguments, the width of the build's isize and the value
\* it returned
DibCall(op, hdc, xDest, yDest, w, h, xSrc, ySrc, StartScan, cLines, ColorUse, DestWidth, DestHeight, rop, wide, ret) ==
    [op |-> op, hdc |-> hdc, xDest |-> xDest, yDest |-> yDest, w |-> w, h |-> h, xSrc |-> xSrc,
     ySrc |-> ySrc, StartScan |-> StartScan, cLines |-> cLines, ColorUse |-> ColorUse,
     DestWidth |-> DestWidth, DestHeight |-> DestHeight, rop |-> rop, wide |-> wide, ret |-> ret]

\* the u32 arguments passed: inside the bitmaps, past them, with the top bit set
DibXDests == {0, 1, U32 - 1}
DibYDests == {0, DstH + 1, U32 \div 2}
DibWs == {0, 2, U32 - 1}
DibHs == {SrcH, U32 - 1}
DibXSrcs == {0, 1, U32 - 1}
DibYSrcs == {0, U32 \div 2}

DibPlacement(xDest, yDest, w, h, xSrc, ySrc) ==
    [xDest |-> xDest, yDest |-> yDest, w |-> w, h |-> h, xSrc |-> xSrc, ySrc |-> ySrc]
DibPlacements ==
    {DibPlacement(xDest, yDest, w, h, xSrc, ySrc) :
        xDest \in DibXDests, yDest \in DibYDests, w \in DibWs, h \in DibHs,
        xSrc \in DibXSrcs, ySrc \in DibYSrcs}

\* the DIB BitmapRGBA32::parse reads from guest memory at lpbmi and lpvBits: the
\* source bitmap of the scene
ParsedDIB == objects[HSrcBitmap]

\* SetDIBitsToDevice with StartScan = ySrc, cLines = h and DIB_RGB_COLORS
SetDIBitsToDevice ==
    \E hdc \in {HdcDst, HdcWin}, p \in DibPlacements, wide \in BOOLEAN :
        LET o == setDIBitsToDevice(objects, windows, dcs, overflow_checks, wide, ParsedDIB, hdc,
                                   p.xDest, p.yDest, p.w, p.h, p.xSrc, p.ySrc, p.ySrc, p.h,
                                   DIB_RGB_COLORS)
        IN  /\ GdiRunning
            /\ GdiLeaves(o, DibCall("SetDIBitsToDevice", hdc, p.xDest, p.yDest, p.w, p.h, p.xSrc,
                                    p.ySrc, p.ySrc, p.h, DIB_RGB_COLORS, p.w, p.h, SRCCOPY, wide,
                                    o.ret))

\* SetDIBitsToDevice with other scans, other usage or a DirectDrawSurface DC
SetDIBitsToDeviceOther ==
    \E hdc \in {HdcDst, HdcSurface}, StartScan \in {0, 1}, cLines \in {1, 2}, ColorUse \in {0, 1} :
        LET o == setDIBitsToDevice(objects, windows, dcs, overflow_checks, TRUE, ParsedDIB, hdc,
                                   0, 0, 2, 1, 0, 0, StartScan, cLines, ColorUse)
        IN  /\ GdiRunning
            /\ hdc = HdcSurface \/ StartScan # 0 \/ cLines # 1 \/ ColorUse # DIB_RGB_COLORS
            /\ GdiLeaves(o, DibCall("SetDIBitsToDevice", hdc, 0, 0, 2, 1, 0, 0, StartScan, cLines,
                                    ColorUse, 2, 1, SRCCOPY, TRUE, o.ret))

\* StretchDIBits with destination extents equal to the source's and not
StretchDIBits ==
    \E hdc \in {HdcDst, HdcWin}, xDest \in {0}, yDest \in {0, DstH + 1},
       SrcWidth \in {2, SrcW}, SrcHeight \in {1, SrcH}, ySrc \in {0, 1},
       DestWidth \in {2, 3, SrcW}, DestHeight \in {1, SrcH}, rop \in {SRCCOPY, PATCOPY},
       wide \in BOOLEAN :
        LET o == stretchDIBits(objects, windows, dcs, overflow_checks, wide, ParsedDIB, hdc,
                               xDest, yDest, DestWidth, DestHeight, 0, ySrc, SrcWidth, SrcHeight,
                               DIB_RGB_COLORS, rop)
        IN  /\ GdiRunning
            /\ GdiLeaves(o, DibCall("StretchDIBits", hdc, xDest, yDest, SrcWidth, SrcHeight, 0,
                                    ySrc, 0, SrcHeight, DIB_RGB_COLORS, DestWidth, DestHeight,
                                    rop, wide, o.ret))

\* the same blit is made up to this many times
MaxBlits == 2

\* the blits made twice: every placement around the origin, copying and inverting
TwiceInputs ==
    {<<Placement(x, cx, x1, <<y, cy, 0>>), rop>> :
        x \in {-1, 0, 1}, cx \in {2, SrcW}, x1 \in {0, 1}, y \in {-1, 0, 1}, cy \in {1, SrcH},
        rop \in {SRCCOPY, NOTSRCCOPY}}

\* a first BitBlt of a program that blits twice
BitBltOnce ==
    \E hdc \in {HdcDst, HdcWin}, arg \in TwiceInputs :
        LET p == arg[1]
            rop == arg[2]
            o == bitBlt(objects, windows, dcs, overflow_checks,
                        hdc, p.x, p.y, p.cx, p.cy, HdcSrc, p.x1, p.y1, rop)
        IN  /\ status = "run" /\ calls = 0
            /\ GdiLeaves(o, BltCall("BitBlt", hdc, p.x, p.y, p.cx, p.cy, HdcSrc, p.x1, p.y1,
                                    p.cx, p.cy, rop, o.ret))

\* BitBlt again with the arguments of the BitBlt before
BitBltAgain ==
    LET c == last
        o == bitBlt(objects, windows, dcs, overflow_checks,
                    c.hdc, c.x, c.y, c.cx, c.cy, c.hdcSrc, c.x1, c.y1, c.rop)
    IN  /\ status = "run" /\ 0 < calls /\ calls < MaxBlits
        /\ GdiLeaves(o, [c EXCEPT !.ret = o.ret])

\* StretchBlt with source extents equal to the destination's and not
StretchBlt ==
    \E hdc \in {HdcDst, HdcWin}, arg \in BltInputs :
      \E wSrc \in {arg[1].cx, 2, 3}, hSrc \in {arg[1].cy, 1} :
        LET p == arg[1]
            rop == arg[2]
            o == stretchBlt(objects, windows, dcs, overflow_checks,
                            hdc, p.x, p.y, p.cx, p.cy, HdcSrc, p.x1, p.y1, wSrc, hSrc, rop)
        IN  /\ GdiRunning
            /\ GdiLeaves(o, BltCall("StretchBlt", hdc, p.x, p.y, p.cx, p.cy, HdcSrc, p.x1, p.y1,
                                    wSrc, hSrc, rop, o.ret))

\* PatBlt on the DC of the destination bitmap, of the window, or on no DC
PatBlt ==
    \E hdc \in {HdcDst, HdcWin, 9}, p \in RopPlacements, rop \in RopInputs :
        LET o == patBlt(objects, windows, dcs, overflow_checks, hdc, p.x, p.y, p.cx, p.cy, rop)
        IN  /\ GdiRunning
            /\ GdiLeaves(o, BltCall("PatBlt", hdc, p.x, p.y, p.cx, p.cy, 0, 0, 0, 0, 0, rop, o.ret))

\* ------------------------------------------------------------------- draw
\* y * stride in u32, for a stride n
RECURSIVE mul_u32(_, _)
mul_u32(a, n) == IF n = 0 THEN 0 ELSE WrapAdd(mul_u32(a, n - 1), a)

RECURSIVE mul_u32_ovf(_, _)
mul_u32_ovf(a, n) == n > 0 /\ (mul_u32_ovf(a, n - 1) \/ AddOvf(mul_u32(a, n - 1), a))

\* ((y * stride) + x) as usize, and the overflow of its u32 arithmetic
pixel_index(x, y, row) == WrapAdd(mul_u32(y, row), x)
pixel_index_ovf(x, y, row) == mul_u32_ovf(y, row) \/ AddOvf(mul_u32(y, row), x)

\* MoveToEx(hdc, x, y, lppt): the value is <<TRUE, the POINT written through lppt>>
moveToEx(objs, wins, ds, hdc, x, y, lppt) ==
    IF hdc \notin DOMAIN ds THEN GdiOutcome("panic", objs, wins, ds, <<0, <<>>>>)
    ELSE GdiOutcome("ok", objs, wins, [ds EXCEPT ![hdc].x = x, ![hdc].y = y],
                    <<1, IF lppt THEN <<ds[hdc].x, ds[hdc].y>> ELSE <<>>>>)

\* fn ascending
ascending(a, b) == IF a > b THEN <<b, a>> ELSE <<a, b>>

\* LineTo(hdc, x, y).  A loop that indexes out of pixels panics there: the pixels of
\* the iterations before it are written and the position is not.  lo..hi are the
\* values the loop variable takes; an index out of pixels is met within
\* pixels.len() iterations, so later ones need no look.
lineTo(objs, wins, ds, oc, hdc, x, y) ==
    IF hdc \notin DOMAIN ds THEN GdiOutcome("panic", objs, wins, ds, 0)
    ELSE IF ds[hdc].target.kind # "Window" THEN GdiOutcome("panic", objs, wins, ds, 0)
    ELSE IF ds[hdc].target.h \notin DOMAIN wins THEN GdiOutcome("panic", objs, wins, ds, 0)
    ELSE
    LET dc == ds[hdc]
        hwnd == dc.target.h
        window == wins[hwnd]
        row == window.width
        pixels == pixels_slice(window.bitmap)
        pen_known == dc.pen \in DOMAIN objs /\ "kind" \in DOMAIN objs[dc.pen]
                     /\ objs[dc.pen].kind = "Pen"
        color == IF dc.r2 = COPYPEN THEN to_pixel(objs[dc.pen].color) ELSE to_pixel(white)
        vertical == x = dc.x
        ends == IF vertical THEN ascending(y, dc.y) ELSE ascending(x, dc.x)
        lo == ends[1]
        hi == Min(ends[2], ends[1] + Len(pixels))
        Index(i) == IF vertical THEN pixel_index(x, i, row) ELSE pixel_index(i, y, row)
        Bad(i) == \/ oc /\ (IF vertical THEN pixel_index_ovf(x, i, row)
                            ELSE pixel_index_ovf(i, y, row))
                  \/ Index(i) >= Len(pixels)
        Reached(i) == \A j \in lo..i : ~Bad(j)
        written == {Index(i) + 1 : i \in {j \in lo..hi : Reached(j)}}
        drawn == [wins EXCEPT ![hwnd].bitmap.pixels.data =
                     [k \in DOMAIN @ |-> IF k \in written THEN color ELSE @[k]]]
    IN  IF dc.r2 = COPYPEN /\ ~pen_known THEN GdiOutcome("panic", objs, wins, ds, 0)
        ELSE IF ~vertical /\ y # dc.y THEN GdiOutcome("panic", objs, wins, ds, 0)
        ELSE IF \E i \in lo..hi : Bad(i) THEN GdiOutcome("panic", objs, drawn, ds, 0)
        ELSE GdiOutcome("ok", objs, drawn,
                        IF vertical THEN [ds EXCEPT ![hdc].y = y] ELSE [ds EXCEPT ![hdc].x = x], 0)

\* the mode SetROP2 returns instead of the one it replaces
setROP2_returning_new(objs, wins, ds, hdc, rop2) ==
    IF hdc \notin DOMAIN ds \/ rop2 \notin R2 THEN GdiOutcome("panic", objs, wins, ds, 0)
    ELSE GdiOutcome("ok", objs, wins, [ds EXCEPT ![hdc].r2 = rop2], rop2)

\* SetROP2(hdc, rop2): std::mem::replace(&mut dc.r2, rop2.unwrap()) as u32
setROP2(objs, wins, ds, hdc, rop2) ==
    IF hdc \notin DOMAIN ds \/ rop2 \notin R2 THEN GdiOutcome("panic", objs, wins, ds, 0)
    ELSE GdiOutcome("ok", objs, wins, [ds EXCEPT ![hdc].r2 = rop2], ds[hdc].r2)

\* SetPixel(hdc, x, y, color)
setPixel(objs, wins, ds, oc, hdc, x, y, color) ==
    IF hdc \notin DOMAIN ds THEN GdiOutcome("panic", objs, wins, ds, 0)
    ELSE IF ds[hdc].target.kind = "Memory" THEN GdiOutcome("ok", objs, wins, ds, color)
    ELSE IF ds[hdc].target.kind # "Window" THEN GdiOutcome("panic", objs, wins, ds, 0)
    ELSE IF ds[hdc].target.h \notin DOMAIN wins THEN GdiOutcome("panic", objs, wins, ds, 0)
    ELSE
    LET hwnd == ds[hdc].target.h
        window == wins[hwnd]
        pixels == pixels_slice(window.bitmap)
        index == pixel_index(x, y, window.width)
    IN  IF x >= window.width \/ y >= window.height THEN GdiOutcome("ok", objs, wins, ds, CLR_INVALID)
        ELSE IF (oc /\ pixel_index_ovf(x, y, window.width)) \/ index >= Len(pixels)
        THEN GdiOutcome("panic", objs, wins, ds, 0)
        ELSE GdiOutcome("ok", objs,
                        [wins EXCEPT ![hwnd].bitmap.pixels.data[index + 1] = to_pixel(color)],
                        ds, color)

\* GetPixel(hdc, x, y)
getPixel(objs, wins, ds, oc, hdc, x, y) ==
    IF hdc \notin DOMAIN ds THEN GdiOutcome("panic", objs, wins, ds, 0)
    ELSE IF ds[hdc].target.kind # "Window" THEN GdiOutcome("ok", objs, wins, ds, from_rgb(0, 0, 0))
    ELSE IF ds[hdc].target.h \notin DOMAIN wins THEN GdiOutcome("panic", objs, wins, ds, 0)
    ELSE
    LET window == wins[ds[hdc].target.h]
        pixels == pixels_slice(window.bitmap)
        index == pixel_index(x, y, window.width)
    IN  IF (oc /\ pixel_index_ovf(x, y, window.width)) \/ index >= Len(pixels)
        THEN GdiOutcome("panic", objs, wins, ds, 0)
        ELSE GdiOutcome("ok", objs, wins, ds,
                        from_rgb(pixels[index + 1][1], pixels[index + 1][2], pixels[index + 1][3]))

\* behaviours of the drawing calls are explored up to this many calls
MaxDrawCalls == 3

DrawRunning == status = "run" /\ calls < MaxDrawCalls

\* for each DC the mode the most recent SetROP2 on it passed, COPYPEN when there was
\* none, and the MoveToEx, LineTo and SetROP2 calls that returned on it, in order;
\* kept with the calls
Rop2Set == IF "rop2_set" \in DOMAIN last THEN last.rop2_set ELSE [h \in DOMAIN dcs |-> COPYPEN]
Trail == IF "trail" \in DOMAIN last THEN last.trail ELSE [h \in DOMAIN dcs |-> <<>>]

\* a drawing call: its arguments and the value it returned
DrawCall(op, hdc, x, y, arg, ret, pt, rop2_set, trail) ==
    [op |-> op, hdc |-> hdc, x |-> x, y |-> y, arg |-> arg, ret |-> ret, pt |-> pt,
     rop2_set |-> rop2_set, trail |-> trail]

\* the trail after the call op on hdc with outcome o
Trailed(o, hdc, op) == IF o.st = "ok" THEN [Trail EXCEPT ![hdc] = Append(@, op)] ELSE Trail

\* MoveToEx into the window, past its right edge and on the memory DC
MoveToEx ==
    \E arg \in {<<HdcWin, 1, 0>>, <<HdcWin, WinW, 0>>, <<HdcWin, 0, U32 - 1>>, <<HdcDst, 1, 0>>},
       lppt \in BOOLEAN :
        LET o == moveToEx(objects, windows, dcs, arg[1], arg[2], arg[3], lppt)
        IN  /\ DrawRunning
            /\ lppt => arg[1] = HdcWin /\ arg[2] = 1
            /\ GdiLeaves(o, DrawCall("MoveToEx", arg[1], arg[2], arg[3], lppt, o.ret[1],
                                     o.ret[2], Rop2Set,
                                     Trailed(o, arg[1], "MoveToEx")))

\* LineTo along a row, along a column, to a point on neither, out of the window
LineTo ==
    \E arg \in {<<HdcWin, 0, 0>>, <<HdcWin, 1, 2>>, <<HdcWin, 2, 0>>, <<HdcWin, WinW, 1>>,
                <<HdcWin, 0, WinH>>, <<HdcWin, 0, U32 - 2>>, <<HdcDst, 0, 0>>} :
        LET o == lineTo(objects, windows, dcs, overflow_checks, arg[1], arg[2], arg[3])
        IN  /\ DrawRunning
            /\ GdiLeaves(o, DrawCall("LineTo", arg[1], arg[2], arg[3], 0, o.ret, <<>>, Rop2Set,
                                     Trailed(o, arg[1], "LineTo")))

\* SetROP2 with the modes of R2 and a value that is none
SetROP2 ==
    \E arg \in {<<HdcWin, COPYPEN>>, <<HdcWin, WHITE>>, <<HdcWin, 7>>, <<HdcDst, WHITE>>} :
        LET o == setROP2(objects, windows, dcs, arg[1], arg[2])
        IN  /\ DrawRunning
            /\ GdiLeaves(o, DrawCall("SetROP2", arg[1], 0, 0, arg[2], o.ret, <<>>,
                                     IF o.st = "ok" THEN [Rop2Set EXCEPT ![arg[1]] = arg[2]]
                                     ELSE Rop2Set,
                                     Trailed(o, arg[1], "SetROP2")))

\* SetPixel in the window, past its right edge and on the other DCs
SetPixel ==
    \E arg \in {<<HdcWin, 1, 1>>, <<HdcWin, WinW, 0>>, <<HdcDst, 0, 0>>, <<HdcSurface, 0, 0>>} :
        LET o == setPixel(objects, windows, dcs, overflow_checks, arg[1], arg[2], arg[3],
                          from_rgb(1, 2, 3))
        IN  /\ DrawRunning
            /\ GdiLeaves(o, DrawCall("SetPixel", arg[1], arg[2], arg[3], from_rgb(1, 2, 3), o.ret, <<>>,
                                     Rop2Set, Trail))

\* GetPixel in the window, past its edges and on the other DCs
GetPixel ==
    \E arg \in {<<HdcWin, 1, 1>>, <<HdcWin, WinW, 0>>, <<HdcWin, WinW, WinH>>, <<HdcDst, 0, 0>>,
                <<HdcSurface, 0, 0>>} :
        LET o == getPixel(objects, windows, dcs, overflow_checks, arg[1], arg[2], arg[3])
        IN  /\ DrawRunning
            /\ GdiLeaves(o, DrawCall("GetPixel", arg[1], arg[2], arg[3], 0, o.ret, <<>>, Rop2Set,
                                     Trail))

\* ------------------------------------------------------- specifications
NoImage == [loaded |-> FALSE, base |-> 0, size_of_image |-> 0, sections |-> <<>>,
            stack_reserve |-> 0, stack |-> Mapping(0, 0), heap |-> 0]

InitMachine ==
    /\ mappings = new
    /\ memLen = 0
    /\ overflow_checks \in BOOLEAN
    /\ status = "run"
    /\ last = Call("new", 0, 0, FALSE, 0, 0)
    /\ calls = 0
    /\ freed = {}
    /\ heaps = {}
    /\ regs = [esp |-> 0, ebp |-> 0]
    /\ image = NoImage

InitHeapModel ==
    /\ mem = [a \in {} |-> 0]
    /\ blocks = {}
    /\ objects = <<>>

InitGdi ==
    /\ dcs = <<>>
    /\ windows = <<>>

Init == InitMachine /\ InitHeapModel /\ InitGdi

Next ==
    \/ Add
    \/ Alloc
    \/ Grow
    \/ VirtualAlloc
    \/ VirtualFree
    \/ HeapCreate
    \/ HeapDestroy

Spec == Init /\ [][Next]_vars

\* the loaded program: load_exe, then the calls that map memory
NextLoaded ==
    \/ LoadExe
    \/ image.loaded /\ Alloc
    \/ image.loaded /\ Grow
    \/ image.loaded /\ VirtualAlloc
    \/ image.loaded /\ HeapCreate

SpecLoaded == Init /\ [][NextLoaded]_vars

\* the heap calls and CreateDIBSection of a loaded program
NextHeap ==
    \/ LoadExe
    \/ HeapAlloc
    \/ HeapFree
    \/ HeapSize
    \/ HeapReAlloc
    \/ Store
    \/ CreateDIBSection

SpecHeap == Init /\ [][NextHeap]_vars

InitGdiScene ==
    /\ InitMachine
    /\ mem = [a \in {} |-> 0]
    /\ blocks = {}
    /\ InitScene

\* the blits of a program with bitmaps, a window and DCs on them
NextBlt ==
    \/ BitBlt
    \/ StretchBlt
    \/ PatBlt
    \/ SetDIBitsToDevice
    \/ SetDIBitsToDeviceOther
    \/ StretchDIBits

SpecBlt == InitGdiScene /\ [][NextBlt]_vars

\* the same BitBlt made again and again on the scene
NextTwice == BitBltOnce \/ BitBltAgain

SpecTwice == InitGdiScene /\ [][NextTwice]_vars

\* the drawing calls of a program with a window and DCs
NextDraw ==
    \/ MoveToEx
    \/ LineTo
    \/ SetROP2
    \/ SetPixel
    \/ GetPixel

SpecDraw == InitGdiScene /\ [][NextDraw]_vars

\* the pen's calls: position, lines and mode
NextPen ==
    \/ MoveToEx
    \/ LineTo
    \/ SetROP2

SpecPen == InitGdiScene /\ [][NextPen]_vars

\* ------------------------------------------------- the window back-buffer
\* fill_rect(hdc, rect, color): the whole back-buffer of the window takes the
\* colour, rect is not looked at
fill_rect(objs, wins, ds, hdc, rect, color) ==
    IF hdc \notin DOMAIN ds THEN GdiOutcome("panic", objs, wins, ds, 0)
    ELSE IF ds[hdc].target.kind # "Window" THEN GdiOutcome("panic", objs, wins, ds, 0)
    ELSE IF ds[hdc].target.h \notin DOMAIN wins THEN GdiOutcome("panic", objs, wins, ds, 0)
    ELSE GdiOutcome("ok", objs,
                    [wins EXCEPT ![ds[hdc].target.h].bitmap.pixels.data =
                        [i \in DOMAIN @ |-> to_pixel(color)]],
                    ds, 0)

\* behaviours of the calls that draw into the window are explored up to this many
\* calls
MaxWindowCalls == 2

\* a COLORREF whose top byte is not 0: COLORREF(arg) keeps all 32 bits of the
\* argument
WithTopByte(color) == color + 5 * 2^24

\* the scene with a pen and a brush created from colours whose top byte is set, and
\* the window DC in either mode
InitWindowScene ==
    /\ InitMachine
    /\ mem = [a \in {} |-> 0]
    /\ blocks = {}
    /\ objects = <<BitmapRGBA32(SrcW, SrcH, PixelDataOwned(Raster(SrcW, SrcH, SrcPixel))),
                   BitmapRGBA32(DstW, DstH, PixelDataOwned(Raster(DstW, DstH, DstPixel))),
                   Pen(WithTopByte(from_rgb(255, 0, 0))),
                   Brush(WithTopByte(from_rgb(0, 255, 0)))>>
    /\ windows = <<WindowOf(WinW, WinH, Raster(WinW, WinH, WinPixel))>>
    /\ \E r2 \in R2 :
           dcs = <<DC(Memory(HSrcBitmap), 0, 0, HPen, HBrush, COPYPEN),
                   DC(Memory(HDstBitmap), 0, 0, HPen, HBrush, COPYPEN),
                   DC(Window(HWnd), 0, 0, HPen, HBrush, r2),
                   DC(DirectDrawSurface(0, SrcW, SrcH), 0, 0, HPen, HBrush, COPYPEN)>>

WindowRunning == status = "run" /\ calls < MaxWindowCalls

\* a call that draws into the window: its arguments and the value it returned
WindowCall(op, hdc, args, ret) == [op |-> op, hdc |-> hdc, args |-> args, ret |-> ret]

\* BitBlt to the window from the source bitmap, whose pixels have alpha 85
BitBltWindow ==
    \E p \in {Placement(0, 2, 0, <<0, 1, 1>>), Placement(-1, SrcW, 0, <<1, 5, -1>>)},
       rop \in {SRCCOPY, NOTSRCCOPY, SRCAND} :
        LET o == bitBlt(objects, windows, dcs, overflow_checks,
                        HdcWin, p.x, p.y, p.cx, p.cy, HdcSrc, p.x1, p.y1, rop)
        IN  /\ WindowRunning
            /\ GdiLeaves(o, WindowCall("BitBlt", HdcWin, <<p, rop>>, o.ret))

\* PatBlt to the window with the brush and with black
PatBltWindow ==
    \E rop \in {PATCOPY, BLACKNESS} :
        LET o == patBlt(objects, windows, dcs, overflow_checks, HdcWin, 1, 0, 2, 2, rop)
        IN  /\ WindowRunning
            /\ GdiLeaves(o, WindowCall("PatBlt", HdcWin, <<1, 0, 2, 2, rop>>, o.ret))

\* SetDIBitsToDevice to the window from the DIB, whose pixels have alpha 85
SetDIBitsToDeviceWindow ==
    \E p \in {DibPlacement(0, 0, 2, SrcH, 0, 0), DibPlacement(1, 1, U32 - 1, SrcH, 1, 0)},
       wide \in BOOLEAN :
        LET o == setDIBitsToDevice(objects, windows, dcs, overflow_checks, wide, ParsedDIB, HdcWin,
                                   p.xDest, p.yDest, p.w, p.h, p.xSrc, p.ySrc, p.ySrc, p.h,
                                   DIB_RGB_COLORS)
        IN  /\ WindowRunning
            /\ GdiLeaves(o, WindowCall("SetDIBitsToDevice", HdcWin, <<p, wide>>, o.ret))

\* SetPixel in the window and past its edge, the colour with its top byte set
SetPixelWindow ==
    \E arg \in {<<1, 1>>, <<WinW, 0>>} :
        LET color == WithTopByte(from_rgb(1, 2, 3))
            o == setPixel(objects, windows, dcs, overflow_checks, HdcWin, arg[1], arg[2], color)
        IN  /\ WindowRunning
            /\ GdiLeaves(o, WindowCall("SetPixel", HdcWin, <<arg[1], arg[2], color>>, o.ret))

\* LineTo in the window along a row, along a column and out of the window
LineToWindow ==
    \E arg \in {<<2, 0>>, <<0, 1>>, <<0, WinH>>} :
        LET o == lineTo(objects, windows, dcs, overflow_checks, HdcWin, arg[1], arg[2])
        IN  /\ WindowRunning
            /\ GdiLeaves(o, WindowCall("LineTo", HdcWin, arg, o.ret))

\* fill_rect on the window and on a memory DC, the colour with its top byte set
FillRect ==
    \E hdc \in {HdcWin, HdcDst} :
        LET color == WithTopByte(from_rgb(9, 8, 7))
            rect == RECT(0, 0, 1, 1)
            o == fill_rect(objects, windows, dcs, hdc, rect, color)
        IN  /\ WindowRunning
            /\ GdiLeaves(o, WindowCall("fill_rect", hdc, <<rect, color>>, o.ret))

\* the calls that draw into the window of a program with bitmaps, a pen and a brush
NextWindow ==
    \/ BitBltWindow
    \/ PatBltWindow
    \/ SetDIBitsToDeviceWindow
    \/ SetPixelWindow
    \/ LineToWindow
    \/ FillRect

SpecWindow == InitWindowScene /\ [][NextWindow]_vars

\* ------------------------------------------------------------------ claims
Returned == status = "run"

Indices(ms) == 1..Len(ms)

StrictlyAscending(ms) == \A i \in 1..(Len(ms) - 1) : ms[i].addr < ms[i + 1].addr

PageMultiples(ms) == \A i \in Indices(ms) : ms[i].size % PAGE = 0

NoOverlap(ms) == \A i \in 1..(Len(ms) - 1) : End(ms[i]) <= ms[i + 1].addr

\* C1: after any sequence of returning add, alloc and grow calls the table is
\* strictly ascending by addr, every size is a multiple of the page size and no
\* mapping extends past the addr of the next.
C1_TableInvariant ==
    Returned => /\ StrictlyAscending(mappings)
                /\ PageMultiples(mappings)
                /\ NoOverlap(mappings)

\* C2: the first mapping is always the null guard {addr 0, size 0x1000}, no mapping
\* made by alloc or VirtualAlloc starts below 0x1000 and a successful
\* VirtualAlloc(0, n) does not return 0.
C2_NullGuard ==
    /\ mappings[1] = Mapping(0, PAGE)
    /\ (Returned /\ last.op = "alloc") => mappings[last.idx].addr >= PAGE
    /\ (Returned /\ last.op = "VirtualAlloc" /\ last.addr = 0) => last.ret >= PAGE

\* the size rounded up to pages as a number, without the width of a word
RoundedUp(size) == ((size + PAGE - 1) \div PAGE) * PAGE

RemoveAt(ms, i) == SubSeq(ms, 1, i - 1) \o SubSeq(ms, i + 1, Len(ms))

\* the end of the mapping before index i, 0 before the first
EndBefore(ms, i) == IF i = 1 THEN 0 ELSE End(ms[i - 1])

\* the gap in front of mapping i is longer than size
GapAt(ms, i, size) == ms[i].addr - EndBefore(ms, i) > size

Disjoint(m, n) == End(m) <= n.addr \/ End(n) <= m.addr

\* what C3 says of an alloc of size on the table old that left the table now with
\* the new mapping at index idx
PlacedAsClaimed(old, now, idx, size, len) ==
    LET m == now[idx] IN
    /\ m.size = size
    /\ IF \E i \in Indices(old) : GapAt(old, i, size)
       THEN LET g == CHOOSE i \in Indices(old) :
                        GapAt(old, i, size) /\ \A j \in 1..(i - 1) : ~GapAt(old, j, size)
            IN  m.addr = EndBefore(old, g)
       ELSE /\ m.addr = End(old[Len(old)])
            /\ len >= m.addr + m.size
    /\ \A i \in Indices(old) : Disjoint(m, old[i])

\* C3: an alloc whose rounded size is at most 20 MiB returns with the new mapping,
\* of the rounded size, at the end of the mapping before the first gap longer than
\* the size (a gap of exactly the size is passed over), else at the end of the
\* highest mapping with mem.len() >= addr + size; it overlaps no other mapping.
C3_AllocPlacement ==
    (last.op = "alloc" /\ RoundedUp(last.size) <= MaxMappingSize) =>
        /\ Returned
        /\ PlacedAsClaimed(RemoveAt(mappings, last.idx), mappings, last.idx,
                           RoundedUp(last.size), memLen)

Count(ms, a) == Cardinality({i \in Indices(ms) : ms[i].addr = a})

\* no mapping is removed and none changes its addr
MappingsKept ==
    /\ Len(mappings') >= Len(mappings)
    /\ \A i \in Indices(mappings) : Count(mappings', mappings[i].addr) >= Count(mappings, mappings[i].addr)

\* VirtualFree returns 1 and changes neither the table nor mem.len()
FreeIsNoOp ==
    (last'.op = "VirtualFree" /\ calls' = calls + 1) =>
        (last'.ret = 1 /\ mappings' = mappings /\ memLen' = memLen)

\* a VirtualAlloc at an address that was freed returns the address; an allocating
\* VirtualAlloc returns a range that overlaps no freed mapping
FreedStaysMapped ==
    /\ (last.op = "VirtualAlloc" /\ last.addr \in freed) => last.ret = last.addr
    /\ (Returned /\ last.op = "VirtualAlloc" /\ last.addr = 0) =>
          /\ mappings[last.idx].addr = last.ret
          /\ \A i \in Indices(mappings) \ {last.idx} :
                 mappings[i].addr \in freed => Disjoint(mappings[last.idx], mappings[i])

\* C7: no call removes a mapping or changes a mapping's addr, VirtualFree changes
\* nothing and returns 1, a freed address is still returned by VirtualAlloc and a
\* later VirtualAlloc(0, n) returns no range that overlaps a freed mapping.
C7_NeverFreed == [][MappingsKept /\ FreeIsNoOp]_vars /\ []FreedStaysMapped

InTable(m) == \E i \in Indices(mappings) : mappings[i] = m

\* C4: once load_exe has run, after any alloc, grow, VirtualAlloc and HeapCreate
\* calls every mapping ends inside guest memory.
C4_InsideMem ==
    (image.loaded /\ Returned) => \A i \in Indices(mappings) : End(mappings[i]) <= memLen

\* a well-formed image: at least its header page long, its sections in ascending
\* order from the end of the header page on, none reaching into the next, and the
\* file data of each inside the image
WellFormed ==
    LET secs == image.sections IN
    /\ image.size_of_image >= PAGE
    /\ \A i \in Indices(secs) :
          /\ secs[i].VirtualAddress >= PAGE
          /\ secs[i].VirtualAddress + secs[i].SizeOfRawData <= Min(image.size_of_image, 10 * MiB)
          /\ i < Len(secs) =>
                secs[i].VirtualAddress + RoundedUp(secs[i].VirtualSize) <= secs[i + 1].VirtualAddress

JustLoaded == last.op = "load_exe" /\ WellFormed

C6_StackPointer ==
    (last.op = "load_exe" /\ Returned) =>
        /\ regs.esp = regs.ebp
        /\ image.stack.addr <= regs.esp
        /\ regs.esp + 4 = End(image.stack)
        /\ image.stack.size = RoundedUp(stack_size(image.stack_reserve))
        /\ \A i \in Indices(mappings) :
              (i # last.idx /\ mappings[i].addr >= image.base) =>
                  Disjoint(image.stack, mappings[i])

\* the bytes outside [a, a + n) are after the step what they were before it
SameOutside(a, n) ==
    \A x \in (DOMAIN mem \cup DOMAIN mem') \ Range(a, n) : Read(mem', x) = Read(mem, x)

\* a step that is a call of op on a heap that exists, and that returned
HeapStep(op) ==
    /\ calls' = calls + 1
    /\ last'.op = op
    /\ get_heap(heaps, last'.hHeap)
    /\ status' = "run"

\* C8: HeapAlloc with HEAP_ZERO_MEMORY zeroes exactly the block granted: when it
\* returns a # 0 every byte of [a, a + n) is 0 and no byte outside it is changed;
\* when the allocation fails HeapAlloc returns 0 and changes no byte of guest memory.
C8_ZeroExact ==
    [][HeapStep("HeapAlloc") =>
         LET a == last'.ret
             n == last'.dwBytes
         IN  /\ (HasZeroMemory(last'.dwFlags) /\ a # 0) =>
                   /\ \A x \in Range(a, n) : Read(mem', x) = 0
                   /\ SameOutside(a, n)
             /\ a = 0 => mem' = mem]_vars

\* C9: HeapReAlloc(h, p, n) of a block of s bytes grants a new block of n bytes and
\* copies min(s, n) bytes of p into it: no byte outside [new, new + n) is written,
\* the first min(s, n) bytes of the new block are the old block's, and the old
\* block stays granted with its bytes and its size.
C9_CopyMin ==
    [][HeapStep("HeapReAlloc") =>
         LET h == last'.hHeap
             p == last'.lpMem
             n == last'.dwBytes
             new_addr == last'.ret
             s == heap_size(blocks, h, p)
         IN  /\ SameOutside(new_addr, n)
             /\ new_addr # 0 =>
                   /\ Block(h, new_addr, n) \in blocks'
                   /\ \A k \in 0..(Min(s, n) - 1) : Read(mem', new_addr + k) = Read(mem, p + k)
             /\ Block(h, p, s) \in blocks'
             /\ heap_size(blocks', h, p) = s
             /\ \A k \in 0..(s - 1) : Read(mem', p + k) = Read(mem, p + k)]_vars

\* C10: every bitmap of the registry whose pixels are PixelData::Ptr(addr, len) has
\* addr # 0 and [addr, addr + len) inside one mapping and inside guest memory, also
\* when the process heap could not grant the pixels.
C10_PtrInsideMapping ==
    \A i \in DOMAIN objects :
        LET px == objects[i].pixels IN
        px.kind = "Ptr" =>
            /\ px.addr # 0
            /\ \E j \in Indices(mappings) :
                  mappings[j].addr <= px.addr /\ px.addr + px.len <= End(mappings[j])
            /\ px.addr + px.len <= memLen

\* ------------------------------------------------------------ claims on gdi
\* a step that is a call of op
GdiStep(op) == calls' = calls + 1 /\ last'.op = op

\* the bitmap a DC draws on: the bitmap selected in a memory DC, the back buffer of
\* a window DC
BitmapOf(objs, wins, hdc) ==
    IF dcs[hdc].target.kind = "Memory" THEN objs[dcs[hdc].target.h]
    ELSE wins[dcs[hdc].target.h].bitmap

PixelAt(bmp, x, y) == pixels_slice(bmp)[y * bmp.width + x + 1]

InBitmap(bmp, x, y) == 0 <= x /\ x < bmp.width /\ 0 <= y /\ y < bmp.height

\* the destination pixels of the clipped copy region of blit c: inside the
\* destination, inside [x, x + cx) x [y, y + cy), their source position inside the
\* source
CopyRegion(c, dst, src) ==
    {p \in (0..(dst.width - 1)) \X (0..(dst.height - 1)) :
        /\ c.x <= p[1] /\ p[1] - c.x < c.cx
        /\ c.y <= p[2] /\ p[2] - c.y < c.cy
        /\ InBitmap(src, p[1] - c.x + c.x1, p[2] - c.y + c.y1)}

\* the source pixel of destination pixel p
SourceOf(c, src, p) == PixelAt(src, p[1] - c.x + c.x1, p[2] - c.y + c.y1)

\* what the raster op makes of destination pixel d and source pixel s
RopOf(rop, d, s) ==
    IF rop = SRCCOPY THEN s
    ELSE IF rop = NOTSRCCOPY THEN <<255 - s[1], 255 - s[2], 255 - s[3], s[4]>>
    ELSE <<BitAnd(d[1], s[1]), BitAnd(d[2], s[2]), BitAnd(d[3], s[3]), BitAnd(d[4], s[4])>>

Rgb(px) == <<px[1], px[2], px[3]>>

\* C11: BitBlt from a memory DC to a memory DC or a window DC applies the raster op
\* to every pixel of the clipped copy region: SRCCOPY d := s, NOTSRCCOPY d.rgb := ~s.rgb
\* and d.a := s.a, SRCAND d := d & s; another op that reaches the copy (PATCOPY) is
\* fatal.  On a window the alpha written is left aside here.
C11_RasterOps ==
    [][GdiStep("BitBlt") =>
         LET c == last'
             src == BitmapOf(objects, windows, c.hdcSrc)
             before == BitmapOf(objects, windows, c.hdc)
             after == BitmapOf(objects', windows', c.hdc)
         IN  /\ c.rop = PATCOPY => status' = "panic"
             /\ (c.rop \in {SRCCOPY, NOTSRCCOPY, SRCAND} /\ status' = "run") =>
                   \A p \in CopyRegion(c, before, src) :
                       LET want == RopOf(c.rop, PixelAt(before, p[1], p[2]), SourceOf(c, src, p))
                           got == PixelAt(after, p[1], p[2])
                       IN  IF c.hdc = HdcWin THEN Rgb(got) = Rgb(want) ELSE got = want]_vars

\* the blit c wrote exactly the pixels of its clipped copy region, each with its
\* source pixel
CopiedExactly(c, before, after, src) ==
    \A p \in (0..(before.width - 1)) \X (0..(before.height - 1)) :
        PixelAt(after, p[1], p[2]) =
            IF p \in CopyRegion(c, before, src) THEN SourceOf(c, src, p)
            ELSE PixelAt(before, p[1], p[2])

SceneBitmap(hdc) ==
    IF hdc = HdcDst THEN BitmapRGBA32(DstW, DstH, PixelDataOwned(Raster(DstW, DstH, DstPixel)))
    ELSE BitmapRGBA32(WinW, WinH, PixelDataOwned(Raster(WinW, WinH, WinPixel)))

\* a NOTSRCCOPY blit has been made twice with the same coordinates and returned
BlitTwice == calls >= 2 /\ last.op = "BitBlt" /\ last.rop = NOTSRCCOPY /\ status = "run"

\* C13 as stated: after two applications of the NOTSRCCOPY blit every destination
\* pixel of the copy region has the rgb it had before the first
C13_TwiceRestores ==
    BlitTwice =>
        \A p \in CopyRegion(last, SceneBitmap(last.hdc), BitmapOf(objects, windows, last.hdcSrc)) :
            Rgb(PixelAt(BitmapOf(objects, windows, last.hdc), p[1], p[2])) =
                Rgb(PixelAt(SceneBitmap(last.hdc), p[1], p[2]))

\* C13 amended: applying the NOTSRCCOPY blit again with the same coordinates, source
\* and destination disjoint, leaves the destination as the application before left it
C13_TwiceAsOnce ==
    [][(GdiStep("BitBlt") /\ calls >= 1 /\ last'.rop = NOTSRCCOPY /\ status' = "run") =>
         BitmapOf(objects', windows', last'.hdc) = BitmapOf(objects, windows, last'.hdc)]_vars

\* C13 witness: a NOTSRCCOPY blit made twice whose copy region is not empty and
\* whose destination is not what it was before the first
C13_Witness ==
    /\ BlitTwice
    /\ CopyRegion(last, SceneBitmap(last.hdc), BitmapOf(objects, windows, last.hdcSrc)) # {}
    /\ BitmapOf(objects, windows, last.hdc) # SceneBitmap(last.hdc)

\* no pixel of a bitmap or of a window is changed by the step
NoPixelWritten == objects' = objects /\ windows' = windows

\* the step leaves what the call with outcome o leaves, and returned o's value
LeavesOutcome(o) ==
    /\ status' = (IF o.st = "ok" THEN "run" ELSE o.st)
    /\ objects' = o.objs /\ windows' = o.wins /\ dcs' = o.ds
    /\ last'.ret = o.ret

\* C14 for StretchBlt: with wDest # wSrc or hDest # hSrc the call is fatal and writes
\* no pixel; with equal extents it leaves the state and the value of BitBlt with the
\* same position, size, source and rop
C14_StretchBlt ==
    GdiStep("StretchBlt") =>
        LET c == last' IN
        IF c.cx # c.wSrc \/ c.cy # c.hSrc
        THEN status' = "panic" /\ NoPixelWritten
        ELSE LeavesOutcome(bitBlt(objects, windows, dcs, overflow_checks, c.hdc, c.x, c.y,
                                  c.cx, c.cy, c.hdcSrc, c.x1, c.y1, c.rop))

\* C14 for StretchDIBits: with SrcWidth # DestWidth or SrcHeight # DestHeight the
\* call is fatal and writes no pixel
C14_StretchDIBits ==
    (GdiStep("StretchDIBits") /\ (last'.w # last'.DestWidth \/ last'.h # last'.DestHeight)) =>
        status' = "panic" /\ NoPixelWritten

\* C14: StretchBlt and StretchDIBits refuse to stretch, and StretchBlt with equal
\* extents is BitBlt
C14_NoStretching == [][C14_StretchBlt /\ C14_StretchDIBits]_vars

\* the width of the rows SetDIBitsToDevice c writes after clamping to the strides
ClampedW(c, dst, src) == Min(c.w, Min(dst.width - c.xDest, src.width - c.xSrc))

\* C20: for all 32-bit xDest, yDest, w, h, xSrc, ySrc, SetDIBitsToDevice neither
\* indexes out of the pixel arrays nor aborts on arithmetic, writes nothing when the
\* clamped w is not positive, and leaves every destination pixel outside the clamped
\* rectangle unchanged: where isize holds every u32, columns [xDest, xDest + w) from
\* row yDest on
C20_ClampedBlit ==
    [][(/\ GdiStep("SetDIBitsToDevice")
        /\ last'.StartScan = last'.ySrc /\ last'.cLines = last'.h
        /\ last'.ColorUse = DIB_RGB_COLORS /\ last'.hdc \in {HdcDst, HdcWin}) =>
         LET c == last'
             src == ParsedDIB
             before == BitmapOf(objects, windows, c.hdc)
             after == BitmapOf(objects', windows', c.hdc)
             cw == ClampedW(c, before, src)
         IN  /\ status' = "run"
             /\ \A p \in (0..(before.width - 1)) \X (0..(before.height - 1)) :
                    (c.wide /\ (cw <= 0 \/ p[1] < c.xDest \/ p[1] - c.xDest >= cw \/ p[2] < c.yDest)) =>
                        PixelAt(after, p[1], p[2]) = PixelAt(before, p[1], p[2])]_vars

\* ----------------------------------------------------------- claims on draw
Between(v, a, b) == (a <= v /\ v <= b) \/ (b <= v /\ v <= a)

\* (px, py) is on the segment from (cx, cy) to (x, y), a row or a column
OnSegment(px, py, cx, cy, x, y) ==
    \/ x = cx /\ px = x /\ Between(py, cy, y)
    \/ y = cy /\ py = y /\ Between(px, cx, x)

\* the colour LineTo draws with on dc
PenPixel(dc) ==
    IF dc.r2 = WHITE THEN <<255, 255, 255, 255>>
    ELSE LET c == objects[dc.pen].color
         IN  <<c % 256, (c \div 256) % 256, (c \div 65536) % 256, 255>>

\* C15: LineTo(dc, x, y) on a window DC at (cx, cy) with x = cx or y = cy sets
\* exactly the back-buffer pixels of the segment from (cx, cy) to (x, y), ends
\* included, to the pen's colour with alpha 255 under COPYPEN or to (255,255,255,255)
\* under WHITE, indexes nothing out of the back buffer and leaves the position at
\* (x, y); with x # cx and y # cy it is fatal and changes nothing.
C15_LineTo ==
    [][(GdiStep("LineTo") /\ last'.hdc = HdcWin) =>
         LET c == last'
             dc == dcs[c.hdc]
             before == BitmapOf(objects, windows, c.hdc)
             after == BitmapOf(objects', windows', c.hdc)
         IN  IF c.x = dc.x \/ c.y = dc.y
             THEN /\ status' = "run"
                  /\ \A p \in (0..(before.width - 1)) \X (0..(before.height - 1)) :
                         PixelAt(after, p[1], p[2]) =
                             IF OnSegment(p[1], p[2], dc.x, dc.y, c.x, c.y) THEN PenPixel(dc)
                             ELSE PixelAt(before, p[1], p[2])
                  /\ dcs' = [dcs EXCEPT ![c.hdc].x = c.x, ![c.hdc].y = c.y]
                  /\ objects' = objects
             ELSE status' = "panic" /\ NoPixelWritten /\ dcs' = dcs]_vars

\* C16: SetROP2(dc, x) returns the mode set by the most recent earlier SetROP2 on
\* the same DC, COPYPEN (13) when there was none, whatever MoveToEx and LineTo
\* calls came between, and changes nothing of the DC but r2
C16_SetROP2 ==
    [][(GdiStep("SetROP2") /\ last'.arg \in R2) =>
         /\ status' = "run"
         /\ last'.ret = Rop2Set[last'.hdc]
         /\ dcs' = [dcs EXCEPT ![last'.hdc].r2 = last'.arg]
         /\ objects' = objects /\ windows' = windows]_vars

\* C16 witness: a SetROP2 that returned WHITE, the mode of the SetROP2 before it on
\* the DC, with a MoveToEx or a LineTo on the DC between the two
C16_Witness ==
    /\ last.op = "SetROP2" /\ status = "run" /\ last.ret = WHITE
    /\ LET t == last.trail[last.hdc]
       IN  /\ Len(t) >= 3
           /\ t[Len(t) - 2] = "SetROP2"
           /\ t[Len(t) - 1] \in {"MoveToEx", "LineTo"}

\* C17: GetPixel on a Memory DC returns CLR_INVALID, on a DirectDrawSurface DC it
\* is a fatal unimplemented error, on a Window DC at in-bounds (x, y) it returns the
\* R, G, B of back-buffer pixel y * width + x with the top byte 0; it never modifies
\* a pixel or a DC
C17_GetPixel ==
    [][(GdiStep("GetPixel") /\ last'.hdc \in DOMAIN dcs) =>
         LET target == dcs[last'.hdc].target
             bmp == BitmapOf(objects, windows, last'.hdc)
             px == PixelAt(bmp, last'.x, last'.y)
         IN  /\ target.kind = "Memory" => status' = "run" /\ last'.ret = CLR_INVALID
             /\ target.kind = "DirectDrawSurface" => status' = "panic"
             /\ (target.kind = "Window" /\ InBitmap(bmp, last'.x, last'.y)) =>
                    status' = "run" /\ last'.ret = from_rgb(px[1], px[2], px[3])
             /\ objects' = objects /\ windows' = windows /\ dcs' = dcs]_vars

\* ------------------------------------------------- claims on add and grow
\* a step that is a call of op on the table
TableStep(op) == calls' = calls + 1 /\ last'.op = op

\* C18: add(m, truncate_previous) where the mapping before m's position ends at or
\* after m.addr: without truncate_previous the call aborts and leaves the table as
\* it was; with it prev.size becomes m.addr - prev.addr, m is inserted right after
\* prev and nothing else changes. When m would extend past the next mapping's addr
\* the call aborts and leaves the table, prev's size included, as it was.
C18_AddConflict ==
    [][TableStep("add") =>
         LET m == Mapping(last'.addr, RoundedUp(last'.size))
             pos == PositionAbove(mappings, m.addr)
             prev == mappings[pos]
             conflict == pos > 0 /\ End(prev) >= m.addr
             past_next == pos < Len(mappings) /\ End(m) > mappings[pos + 1].addr
         IN  /\ (conflict /\ ~last'.flag) => status' = "panic" /\ mappings' = mappings
             /\ (conflict /\ last'.flag /\ ~past_next) =>
                    /\ status' = "run"
                    /\ mappings' = InsertAt([mappings EXCEPT ![pos].size = m.addr - prev.addr],
                                            pos, m)
             /\ past_next => status' = "panic" /\ mappings' = mappings]_vars

\* the least n = size * 2^k, k >= 0, with n - size >= min_growth, as a number; -1
\* when there is none below the end of the word
RECURSIVE LeastDoubling(_, _, _)
LeastDoubling(size, n, min_growth) ==
    IF n - size >= min_growth THEN n
    ELSE IF n = 0 \/ 2 * n >= U32 THEN -1
    ELSE LeastDoubling(size, 2 * n, min_growth)

\* C19: grow(addr, min_growth) on a mapping of the table, of size 0 too, terminates:
\* it aborts because the grown mapping would extend past the next mapping's addr, or
\* it returns a growth g >= min_growth with the new size the old size times 2^k for
\* the least k >= 0 that achieves this, computed without wrap-around, and leaves
\* every other mapping unchanged
C19_GrowTerminates ==
    [][(TableStep("grow") /\ PositionAt(mappings, last'.addr) >= 0) =>
         LET idx == PositionAt(mappings, last'.addr) + 1
             mapping == mappings[idx]
             new_size == LeastDoubling(mapping.size, mapping.size, last'.size)
         IN  /\ status' \in {"run", "panic"}
             /\ status' = "panic" =>
                    /\ new_size >= 0
                    /\ idx < Len(mappings)
                    /\ mapping.addr + new_size > mappings[idx + 1].addr
             /\ status' = "run" =>
                    /\ new_size >= 0
                    /\ last'.ret = new_size - mapping.size
                    /\ last'.ret >= last'.size
                    /\ mappings' = [mappings EXCEPT ![idx].size = new_size]]_vars

\* ------------------------------------------- claims on the window back-buffer
\* every pixel of every window back-buffer has alpha 0xFF
Opaque(wins) ==
    \A h \in DOMAIN wins :
        \A i \in DOMAIN pixels_slice(wins[h].bitmap) : pixels_slice(wins[h].bitmap)[i][4] = 255

\* C21: every pixel BitBlt, PatBlt, SetDIBitsToDevice, SetPixel, LineTo and
\* fill_rect write into a window back-buffer has alpha 0xFF, whatever the alpha of
\* the source pixel, pen, brush or colour: a back-buffer that starts with alpha 0xFF
\* everywhere has alpha 0xFF everywhere in every state these calls reach
C21_WindowAlpha == Opaque(windows)

\* C21 witness: the window holds a pixel with the r, g, b of a source pixel whose
\* alpha is not 0xFF, and a pixel of the colour passed with its top byte set
C21_Witness ==
    /\ calls = MaxWindowCalls
    /\ \E i \in DOMAIN pixels_slice(windows[HWnd].bitmap) :
           \E j \in DOMAIN pixels_slice(objects[HSrcBitmap]) :
               /\ Rgb(pixels_slice(windows[HWnd].bitmap)[i]) = Rgb(pixels_slice(objects[HSrcBitmap])[j])
               /\ pixels_slice(objects[HSrcBitmap])[j][4] # 255
    /\ \E i \in DOMAIN pixels_slice(windows[HWnd].bitmap) :
           Rgb(pixels_slice(windows[HWnd].bitmap)[i]) = <<1, 2, 3>>

====
